---- MODULE Spec2Model ----
(***************************************************************************)
(* The request-caching layer of TradingAgents: RedisClient (the keyed TTL  *)
(* store over a Redis backend), cache_key_builder, the cached_function     *)
(* decorator, MCPCryptoClient.call_mcp_tool and the CoinGecko fallback     *)
(* tool, as a state machine.                                               *)
(***************************************************************************)
EXTENDS Integers, Sequences, FiniteSets, TLC

(***************************************************************************)
(* Python values.  A value is a record [t |-> type tag, v |-> content].    *)
(***************************************************************************)
PyNone == [t |-> "none", v |-> "None"]
PyInt(n) == [t |-> "int", v |-> n]
PyStr(s) == [t |-> "str", v |-> s]
PyBool(b) == [t |-> "bool", v |-> b]
PyList(items) == [t |-> "list", v |-> items]
PyTuple(items) == [t |-> "tuple", v |-> items]
\* a dict is the sequence of its <<key, value>> items in insertion order
PyDict(items) == [t |-> "dict", v |-> items]
\* an instance of a class json cannot encode (a datetime, a set, a Response)
PyObject(name) == [t |-> "object", v |-> name]

\* str(x) and repr(x) of the Python values above
RECURSIVE PyToStr(_), PyRepr(_), ReprItems(_, _), ReprPairs(_, _)
PyRepr(x) ==
    IF x.t = "str" THEN "'" \o x.v \o "'" ELSE PyToStr(x)
ReprItems(items, i) ==
    IF i > Len(items) THEN ""
    ELSE (IF i > 1 THEN ", " ELSE "") \o PyRepr(items[i]) \o ReprItems(items, i + 1)
ReprPairs(items, i) ==
    IF i > Len(items) THEN ""
    ELSE (IF i > 1 THEN ", " ELSE "")
         \o PyRepr(items[i][1]) \o ": " \o PyRepr(items[i][2])
         \o ReprPairs(items, i + 1)
PyToStr(x) ==
    CASE x.t = "str" -> x.v
      [] x.t = "int" -> ToString(x.v)
      [] x.t = "bool" -> (IF x.v THEN "True" ELSE "False")
      [] x.t = "none" -> "None"
      [] x.t = "list" -> "[" \o ReprItems(x.v, 1) \o "]"
      [] x.t = "tuple" -> "(" \o ReprItems(x.v, 1) \o ")"
      [] x.t = "dict" -> "{" \o ReprPairs(x.v, 1) \o "}"
      [] x.t = "object" -> "<" \o x.v \o " object>"

\* isinstance(x, (str, int, float)); bool is a subclass of int
IsPrimitive(x) == x.t \in {"str", "int", "bool"}

(***************************************************************************)
(* json.dumps / json.loads.  A JSON text is modelled by its document tree: *)
(* [t |-> JSON type, v |-> content]; a text that is no JSON is "garbage".  *)
(***************************************************************************)
JNull == [t |-> "null", v |-> "null"]
JGarbage == [t |-> "garbage", v |-> "<<not json>>"]

\* the key of a dict item as json.dumps writes it; "" marks a TypeError
JsonKey(k) ==
    CASE k.t = "str" -> k.v
      [] k.t = "int" -> ToString(k.v)
      [] k.t = "bool" -> (IF k.v THEN "true" ELSE "false")
      [] k.t = "none" -> "null"
      [] OTHER -> ""

RECURSIVE JsonSerializable(_)
JsonSerializable(x) ==
    CASE x.t \in {"none", "bool", "int", "str"} -> TRUE
      [] x.t \in {"list", "tuple"} ->
            \A i \in 1..Len(x.v) : JsonSerializable(x.v[i])
      [] x.t = "dict" ->
            \A i \in 1..Len(x.v) :
                /\ x.v[i][1].t \in {"str", "int", "bool", "none"}
                /\ JsonSerializable(x.v[i][2])
      [] OTHER -> FALSE

\* json.dumps(x) for a serializable x (json.dumps raises TypeError otherwise)
RECURSIVE JsonDumps(_)
JsonDumps(x) ==
    CASE x.t = "none" -> JNull
      [] x.t = "bool" -> [t |-> "bool", v |-> x.v]
      [] x.t = "int" -> [t |-> "number", v |-> x.v]
      [] x.t = "str" -> [t |-> "string", v |-> x.v]
      [] x.t \in {"list", "tuple"} ->
            [t |-> "array", v |-> [i \in 1..Len(x.v) |-> JsonDumps(x.v[i])]]
      [] x.t = "dict" ->
            [t |-> "object",
             v |-> [i \in 1..Len(x.v) |->
                        <<JsonKey(x.v[i][1]), JsonDumps(x.v[i][2])>>]]

\* json.loads(doc) for a document tree (json.loads raises on garbage)
RECURSIVE JsonLoads(_)
JsonLoads(d) ==
    CASE d.t = "null" -> PyNone
      [] d.t = "bool" -> PyBool(d.v)
      [] d.t = "number" -> PyInt(d.v)
      [] d.t = "string" -> PyStr(d.v)
      [] d.t = "array" -> PyList([i \in 1..Len(d.v) |-> JsonLoads(d.v[i])])
      [] d.t = "object" ->
            PyDict([i \in 1..Len(d.v) |-> <<PyStr(d.v[i][1]), JsonLoads(d.v[i][2])>>])

\* dict.get(name): the value of the last item named `name`, None when missing
RECURSIVE DictGetFrom(_, _, _)
DictGetFrom(items, name, i) ==
    IF i = 0 THEN PyNone
    ELSE IF items[i][1].t = "str" /\ items[i][1].v = name THEN items[i][2]
    ELSE DictGetFrom(items, name, i - 1)
DictGet(d, name) == DictGetFrom(d.v, name, Len(d.v))

(***************************************************************************)
(* cache_key_builder.  Positional arguments are a sequence of values,      *)
(* keyword arguments a sequence of <<name, value>> in insertion order.     *)
(***************************************************************************)
\* the keyword names of the model, in Python's string order
ParamNames == <<"days", "symbol">>
NameRank(n) == CHOOSE i \in 1..Len(ParamNames) : ParamNames[i] = n

\* the decimal numeral of hash(s) in a process whose string-hash seed is
\* `seed` (PYTHONHASHSEED); kept symbolic, distinct (seed, s) give distinct
\* numerals
HashNumeral(seed, s) == "#" \o ToString(seed) \o "#" \o s

RemoveAt(items, m) == [i \in 1..(Len(items) - 1) |-> IF i < m THEN items[i] ELSE items[i + 1]]

\* sorted(kwargs.items()): names are unique, so the name decides the order
\* kwargs.items() without sorted()
SortedItems_asGiven(items) == items

RECURSIVE SortedItems(_)
SortedItems(items) ==
    IF Len(items) = 0 THEN <<>>
    ELSE LET m == CHOOSE i \in 1..Len(items) :
                     \A j \in 1..Len(items) :
                         NameRank(items[i][1]) <= NameRank(items[j][1])
         IN <<items[m]>> \o SortedItems(RemoveAt(items, m))

KeyPart(seed, x) ==
    IF IsPrimitive(x) THEN PyToStr(x) ELSE HashNumeral(seed, PyToStr(x))

RECURSIVE JoinColon(_, _)
JoinColon(parts, i) ==
    IF i > Len(parts) THEN ""
    ELSE (IF i > 1 THEN ":" ELSE "") \o parts[i] \o JoinColon(parts, i + 1)

cache_key_builder(seed, args, kwargs) ==
    LET kw == SortedItems(kwargs)
        key_parts ==
            [i \in 1..Len(args) |-> KeyPart(seed, args[i])]
            \o [i \in 1..Len(kw) |-> kw[i][1] \o ":" \o KeyPart(seed, kw[i][2])]
    IN JoinColon(key_parts, 1)

(***************************************************************************)
(* State.                                                                  *)
(***************************************************************************)
VARIABLES
    now,            \* wall clock, seconds
    reachable,      \* the Redis server answers commands
    backend,        \* Redis keyspace: key -> [payload, expireAt]
    hashSeed,       \* the process's string-hash seed
    appConfig,      \* the config dict the application passes around
    redis_client,   \* the module global _redis_client (a RedisClient or None)
    pc,             \* per task: where it stands (see Positions)
    cur,            \* per task: the invocation in flight
    last,           \* the outcome of the operation that completed last
    workload,       \* the request this process issues
    kb,             \* inputs and outputs of a bare cache_key_builder run
    heap,           \* what the process has constructed so far: the number of
                    \* RedisClient instances and of connection handles
    mcp             \* the module global mcp_client and the HTTP sessions it
                    \* has opened

vars == <<now, reachable, backend, hashSeed, appConfig, redis_client, pc, cur, last,
          workload, kb, heap, mcp>>

(***************************************************************************)
(* The Redis server, as the commands RedisClient sends see it.  Every      *)
(* command raises ConnectionError when the server does not answer.         *)
(***************************************************************************)
NoExpiry == -1
KeyAbsent == -2

\* SET key value EX seconds NX: an entry that exists is kept
RedisSetex_keep(be, t, key, seconds, payload) ==
    [k \in DOMAIN be \cup {key} |->
        IF k = key /\ key \notin DOMAIN be
        THEN [payload |-> payload, expireAt |-> t + seconds] ELSE be[k]]

\* SET key value KEEPTTL: the value is replaced, the expiry of an entry that
\* exists is kept
RedisSetex_keepttl(be, t, key, seconds, payload) ==
    [k \in DOMAIN be \cup {key} |->
        IF k = key
        THEN [payload |-> payload,
              expireAt |-> IF key \in DOMAIN be THEN be[key].expireAt ELSE t + seconds]
        ELSE be[k]]

\* SET key value: the entry never expires
RedisSetex_persist(be, t, key, seconds, payload) ==
    [k \in DOMAIN be \cup {key} |->
        IF k = key THEN [payload |-> payload, expireAt |-> NoExpiry] ELSE be[k]]

\* SETEX key seconds value: "invalid expire time" unless seconds > 0
RedisSetex(be, t, key, seconds, payload) ==
    [k \in DOMAIN be \cup {key} |->
        IF k = key THEN [payload |-> payload, expireAt |-> t + seconds] ELSE be[k]]

\* a DEL that reports success and removes nothing
RedisDel_none(be, key) == be

\* DEL key
RedisDel(be, key) == [k \in DOMAIN be \ {key} |-> be[k]]

\* PTTL key: the remaining time in milliseconds
RedisTtl_pttl(be, t, key) ==
    IF key \notin DOMAIN be THEN KeyAbsent
    ELSE IF be[key].expireAt = NoExpiry THEN NoExpiry
    ELSE 1000 * (be[key].expireAt - t)

\* TTL key
RedisTtl(be, t, key) ==
    IF key \notin DOMAIN be THEN KeyAbsent
    ELSE IF be[key].expireAt = NoExpiry THEN NoExpiry
    ELSE be[key].expireAt - t

\* keys whose expiry time has come are gone
Expire(be, t) ==
    [k \in {x \in DOMAIN be : be[x].expireAt = NoExpiry \/ be[x].expireAt > t} |-> be[k]]

(***************************************************************************)
(* RedisClient.  An instance is [redis_url, default_ttl, client, connected]*)
(* with client = (self._client is not None), connected = _is_connected.    *)
(* Every method returns [rc, be, val, exc]: the instance and keyspace      *)
(* after the call, the value returned, and the exception that escaped the  *)
(* call ("" when none did).                                                *)
(***************************************************************************)
NoException == ""

RedisClientInit(url, ttl) ==
    [made |-> TRUE, redis_url |-> url, default_ttl |-> ttl,
     client |-> FALSE, connected |-> FALSE]

\* _redis_client = None
NoRedisClient ==
    [made |-> FALSE, redis_url |-> "", default_ttl |-> PyNone,
     client |-> FALSE, connected |-> FALSE]

\* _get_client: from_url does not connect; the first ping does
get_client(rc, up) ==
    IF rc.client THEN [rc |-> rc, exc |-> NoException]
    ELSE IF up
         THEN [rc |-> [rc EXCEPT !.client = TRUE, !.connected = TRUE],
               exc |-> NoException]
         ELSE [rc |-> [rc EXCEPT !.client = TRUE, !.connected = FALSE],
               exc |-> "ConnectionError"]

\* is_healthy without its try/except
is_healthy_uncaught(rc, up) ==
    LET After(g) ==
            IF g.exc # NoException THEN [rc |-> g.rc, val |-> FALSE, exc |-> g.exc]
            ELSE IF ~up THEN [rc |-> g.rc, val |-> FALSE, exc |-> "ConnectionError"]
            ELSE [rc |-> [g.rc EXCEPT !.connected = TRUE], val |-> TRUE,
                  exc |-> NoException]
    IN After(get_client(rc, up))

is_healthy(rc, up) ==
    LET After(g) ==
            [rc |-> [g.rc EXCEPT !.connected = g.exc = NoException /\ up],
             val |-> g.exc = NoException /\ up, exc |-> NoException]
    IN After(get_client(rc, up))

\* a guard that gives up for good once a connection attempt has failed
Precheck_latched(rc, up) ==
    LET After(h) == [rc |-> h.rc, go |-> h.exc = NoException /\ h.val, exc |-> h.exc]
    IN IF rc.connected THEN [rc |-> rc, go |-> TRUE, exc |-> NoException]
       ELSE IF rc.client THEN [rc |-> rc, go |-> FALSE, exc |-> NoException]
       ELSE After(is_healthy(rc, up))

\* the guard every cache operation starts with:
\*   if not self._is_connected: if not self.is_healthy(): return <default>
\* [rc, go, exc]: go = the operation proceeds to its try block
Precheck(rc, up) ==
    LET After(h) == [rc |-> h.rc, go |-> h.exc = NoException /\ h.val, exc |-> h.exc]
    IN IF rc.connected THEN [rc |-> rc, go |-> TRUE, exc |-> NoException]
       ELSE After(is_healthy(rc, up))

\* bool(x) of a TTL argument
Truthy(x) == ~(x.t = "none" \/ (x.t = "int" /\ x.v = 0))

\* ttl = ttl or self.default_ttl
EffectiveTtl(rc, ttl) == IF Truthy(ttl) THEN ttl ELSE rc.default_ttl

\* datetime.utcnow().isoformat()
IsoFormat(t) == "T+" \o ToString(t)

\* an entry stamped with the time the process started
CacheEntry_stale(value, t, ttl) ==
    PyDict(<< <<PyStr("value"), value>>,
              <<PyStr("timestamp"), PyStr(IsoFormat(0))>>,
              <<PyStr("ttl"), ttl>> >>)

\* the dict set() serializes
CacheEntry(value, t, ttl) ==
    PyDict(<< <<PyStr("value"), value>>,
              <<PyStr("timestamp"), PyStr(IsoFormat(t))>>,
              <<PyStr("ttl"), ttl>> >>)

\* the try block of set(); exc is what the except clause caught
SetBody(rc, be, up, t, key, value, ttl) ==
    LET After(g, eff, entry) ==
            IF g.exc # NoException
            THEN [rc |-> g.rc, be |-> be, ok |-> FALSE, exc |-> g.exc]
            ELSE IF ~JsonSerializable(entry)
            THEN [rc |-> g.rc, be |-> be, ok |-> FALSE, exc |-> "TypeError"]
            ELSE IF ~up
            THEN [rc |-> g.rc, be |-> be, ok |-> FALSE, exc |-> "ConnectionError"]
            ELSE IF eff.t # "int"
            THEN [rc |-> g.rc, be |-> be, ok |-> FALSE, exc |-> "DataError"]
            ELSE IF eff.v <= 0
            THEN [rc |-> g.rc, be |-> be, ok |-> FALSE, exc |-> "ResponseError"]
            ELSE [rc |-> g.rc, be |-> RedisSetex(be, t, key, eff.v, JsonDumps(entry)),
                  ok |-> TRUE, exc |-> NoException]
    IN After(get_client(rc, up), EffectiveTtl(rc, ttl),
             CacheEntry(value, t, EffectiveTtl(rc, ttl)))

Set(rc, be, up, t, key, value, ttl) ==
    LET Done(b) == [rc |-> b.rc, be |-> b.be, val |-> PyBool(b.ok), exc |-> NoException]
        After(p) ==
            IF p.exc # NoException
            THEN [rc |-> p.rc, be |-> be, val |-> PyBool(FALSE), exc |-> p.exc]
            ELSE IF ~p.go
            THEN [rc |-> p.rc, be |-> be, val |-> PyBool(FALSE), exc |-> NoException]
            ELSE Done(SetBody(p.rc, be, up, t, key, value, ttl))
    IN After(Precheck(rc, up))

\* get() returning the whole stored entry instead of its "value" field
GetBody_entry(rc, be, up, key) ==
    LET After(g) ==
            IF g.exc # NoException \/ ~up \/ key \notin DOMAIN be
            THEN [rc |-> g.rc, val |-> PyNone, exc |-> NoException]
            ELSE [rc |-> g.rc, val |-> JsonLoads(be[key].payload), exc |-> NoException]
    IN After(get_client(rc, up))

\* the try block of get()
GetBody(rc, be, up, key) ==
    LET Loaded(g, data) ==
            IF data.t # "dict"
            THEN [rc |-> g.rc, val |-> PyNone, exc |-> "AttributeError"]
            ELSE [rc |-> g.rc, val |-> DictGet(data, "value"), exc |-> NoException]
        After(g) ==
            IF g.exc # NoException THEN [rc |-> g.rc, val |-> PyNone, exc |-> g.exc]
            ELSE IF ~up THEN [rc |-> g.rc, val |-> PyNone, exc |-> "ConnectionError"]
            ELSE IF key \notin DOMAIN be
                 THEN [rc |-> g.rc, val |-> PyNone, exc |-> NoException]
            ELSE IF be[key].payload.t = "garbage"
                 THEN [rc |-> g.rc, val |-> PyNone, exc |-> "JSONDecodeError"]
            ELSE Loaded(g, JsonLoads(be[key].payload))
    IN After(get_client(rc, up))

\* a get() that deletes the entry it cannot decode
Get_evict(rc, be, up, key) ==
    LET Done(b) ==
            [rc |-> b.rc,
             be |-> IF up /\ key \in DOMAIN be /\ be[key].payload.t = "garbage"
                    THEN RedisDel(be, key) ELSE be,
             val |-> b.val, exc |-> NoException]
        After(p) ==
            IF p.exc # NoException
            THEN [rc |-> p.rc, be |-> be, val |-> PyNone, exc |-> p.exc]
            ELSE IF ~p.go
            THEN [rc |-> p.rc, be |-> be, val |-> PyNone, exc |-> NoException]
            ELSE Done(GetBody(p.rc, be, up, key))
    IN After(Precheck(rc, up))

Get(rc, be, up, key) ==
    LET Done(b) == [rc |-> b.rc, be |-> be, val |-> b.val, exc |-> NoException]
        After(p) ==
            IF p.exc # NoException
            THEN [rc |-> p.rc, be |-> be, val |-> PyNone, exc |-> p.exc]
            ELSE IF ~p.go
            THEN [rc |-> p.rc, be |-> be, val |-> PyNone, exc |-> NoException]
            ELSE Done(GetBody(p.rc, be, up, key))
    IN After(Precheck(rc, up))

\* the shape shared by delete, exists, get_ttl and flush_all: the guard, then
\* one command in a try block; `dflt` is returned on every failure
OneCommand(rc, be, up, dflt, okVal, okBe) ==
    LET Done(g) ==
            IF g.exc # NoException \/ ~up
            THEN [rc |-> g.rc, be |-> be, val |-> dflt, exc |-> NoException]
            ELSE [rc |-> g.rc, be |-> okBe, val |-> okVal, exc |-> NoException]
        After(p) ==
            IF p.exc # NoException
            THEN [rc |-> p.rc, be |-> be, val |-> dflt, exc |-> p.exc]
            ELSE IF ~p.go
            THEN [rc |-> p.rc, be |-> be, val |-> dflt, exc |-> NoException]
            ELSE Done(get_client(p.rc, up))
    IN After(Precheck(rc, up))

Delete(rc, be, up, key) ==
    OneCommand(rc, be, up, PyBool(FALSE), PyBool(key \in DOMAIN be), RedisDel(be, key))

Exists(rc, be, up, key) ==
    OneCommand(rc, be, up, PyBool(FALSE), PyBool(key \in DOMAIN be), be)

get_ttl(rc, be, up, t, key) ==
    OneCommand(rc, be, up, PyInt(KeyAbsent), PyInt(RedisTtl(be, t, key)), be)

flush_all(rc, be, up) ==
    OneCommand(rc, be, up, PyBool(FALSE), PyBool(TRUE), [k \in {} |-> be[k]])

\* get_health_info and get_cache_stats: no guard, client.info() in a try block
get_health_info(rc, be, up, t) ==
    LET After(g) ==
            IF g.exc # NoException \/ ~up
            THEN [rc |-> g.rc, be |-> be, exc |-> NoException,
                  val |-> PyDict(<< <<PyStr("status"), PyStr("unhealthy")>>,
                                    <<PyStr("connected"), PyBool(FALSE)>> >>)]
            ELSE [rc |-> g.rc, be |-> be, exc |-> NoException,
                  val |-> PyDict(<< <<PyStr("status"), PyStr("healthy")>>,
                                    <<PyStr("connected"), PyBool(TRUE)>> >>)]
    IN After(get_client(rc, up))

get_cache_stats(rc, be, up) ==
    LET After(g) ==
            IF g.exc # NoException \/ ~up
            THEN [rc |-> g.rc, be |-> be, exc |-> NoException,
                  val |-> PyDict(<< <<PyStr("total_keys"), PyInt(0)>>,
                                    <<PyStr("error"), PyStr("ConnectionError")>> >>)]
            ELSE [rc |-> g.rc, be |-> be, exc |-> NoException,
                  val |-> PyDict(<< <<PyStr("total_keys"),
                                      PyInt(Cardinality(DOMAIN be))>> >>)]
    IN After(get_client(rc, up))

\* is_healthy as a public operation
IsHealthyOp(rc, be, up) ==
    LET After(h) == [rc |-> h.rc, be |-> be, val |-> PyBool(h.val), exc |-> h.exc]
    IN After(is_healthy(rc, up))

(***************************************************************************)
(* Configuration and the process-wide store.  A config is                  *)
(* [given, has_url, redis_url, has_ttl, cache_ttl]; given = FALSE is the   *)
(* call without a config (None).                                           *)
(***************************************************************************)
DefaultRedisUrl == "redis://localhost:6379"
DefaultTtl == 300

NoConfig ==
    [given |-> FALSE, has_url |-> FALSE, redis_url |-> "", has_ttl |-> FALSE,
     cache_ttl |-> PyNone]

\* config.get("cache_ttl", dflt)
ConfigCacheTtl(config, dflt) == IF config.has_ttl THEN config.cache_ttl ELSE PyInt(dflt)

\* get_redis_client(config): the first call creates the instance, later
\* calls return it whatever config they carry
get_redis_client(rc, config) ==
    IF rc.made THEN rc
    ELSE IF config.given
         THEN RedisClientInit(
                IF config.has_url THEN config.redis_url ELSE DefaultRedisUrl,
                ConfigCacheTtl(config, DefaultTtl))
         ELSE RedisClientInit(DefaultRedisUrl, PyInt(DefaultTtl))

(***************************************************************************)
(* The invokers: MCPCryptoClient.call_mcp_tool, a cached_function wrapper  *)
(* and CryptoFallbackTools.get_crypto_data_coingecko.  A request is        *)
(* [inv, kind, args, kwargs, ttl, prefix]: the invoker, the tool or        *)
(* function name, the arguments, and for a wrapper the decorator's ttl and *)
(* key_prefix.                                                             *)
(***************************************************************************)
McpDefaultTtl == 300
DecoratorTtl == 300
CoinGeckoTtl == 300

cache_durations ==
    [get_crypto_price_data |-> 60,
     get_crypto_market_data |-> 30,
     get_crypto_orderbook |-> 10,
     calculate_crypto_indicators |-> 300,
     get_crypto_news |-> 900,
     get_crypto_social_sentiment |-> 600,
     analyze_crypto_news_sentiment |-> 900,
     get_market_fear_greed_index |-> 3600]

\* _get_cache_ttl(tool_name) of an MCPCryptoClient whose config is `config`
get_cache_ttl(config, tool_name) ==
    IF tool_name \in DOMAIN cache_durations
    THEN PyInt(cache_durations[tool_name])
    ELSE ConfigCacheTtl(config, McpDefaultTtl)

\* str.lower() on the symbols of the model
Lower(s) == CASE s = "BTC" -> "btc" [] s = "ETH" -> "eth" [] s = "XYZ" -> "xyz" [] OTHER -> s

\* str.upper() on the symbols of the model
Upper(s) == CASE s = "btc" -> "BTC" [] s = "eth" -> "ETH" [] s = "xyz" -> "XYZ" [] OTHER -> s

CacheKey(seed, r) ==
    CASE r.inv = "mcp" ->
            "mcp:" \o r.kind \o ":" \o cache_key_builder(seed, r.args, r.kwargs)
      [] r.inv = "wrapper" ->
            r.prefix \o ":" \o r.kind \o ":" \o cache_key_builder(seed, r.args, r.kwargs)
      [] r.inv = "coingecko" ->
            "coingecko:" \o Lower(r.args[1].v) \o ":" \o PyToStr(r.args[2])

\* the config the invoker hands to get_redis_client
RedisConfigOf(r, config) == IF r.inv = "wrapper" THEN NoConfig ELSE config

\* the ttl the invoker passes to set()
TtlAsked(r, config) ==
    CASE r.inv = "mcp" -> get_cache_ttl(config, r.kind)
      [] r.inv = "wrapper" -> r.ttl
      [] r.inv = "coingecko" -> PyInt(CoinGeckoTtl)

\* a str holding the JSON text of x: json.dumps(x, indent=2)
PyJsonStr(x) == [t |-> "jsonstr", v |-> JsonDumps(x)]

ErrorDict(msg) == PyDict(<< <<PyStr("error"), PyStr(msg)>> >>)

\* an invoker that returns the JSON text of what it found, as the tool
\* functions around call_mcp_tool do
HitReturn_text(r, cached) == PyJsonStr(cached)

\* what the invoker returns on a cache hit
HitReturn(r, cached) == IF r.inv = "coingecko" THEN PyJsonStr(cached) ELSE cached

(***************************************************************************)
(* CryptoFallbackTools._get_coingecko_coin_id: the coin id of a symbol, a  *)
(* cached lookup of its own that get_crypto_data_coingecko runs before its *)
(* requests.                                                               *)
(***************************************************************************)
CoinIdTtl == 86400

common_mappings ==
    [BTC |-> "bitcoin", ETH |-> "ethereum", BNB |-> "binancecoin", ADA |-> "cardano",
     DOGE |-> "dogecoin", XRP |-> "ripple", DOT |-> "polkadot", SOL |-> "solana",
     AVAX |-> "avalanche-2", MATIC |-> "matic-network", LINK |-> "chainlink",
     UNI |-> "uniswap"]

\* the id the coin list gives for a symbol it holds
ListedCoinId(symbol) == Lower(symbol) \o "-coin"

CoinIdKey(symbol) == "coingecko_coin_id:" \o Lower(symbol)

\* up to the request for the coin list: the cached id, or the id of a common
\* symbol, which is stored.  [rc, be, id, gets, sets]; id = None: to be
\* requested; gets and sets = the calls of get() and set() made
CoinIdLocal(rc, be, up, t, symbol) ==
    LET Stored(s, id) == [rc |-> s.rc, be |-> s.be, id |-> id, gets |-> 1, sets |-> 1]
        After(g) ==
            IF g.val.t # "none"
            THEN [rc |-> g.rc, be |-> be, id |-> g.val, gets |-> 1, sets |-> 0]
            ELSE IF Upper(symbol) \in DOMAIN common_mappings
            THEN Stored(Set(g.rc, be, up, t, CoinIdKey(symbol),
                            PyStr(common_mappings[Upper(symbol)]), PyInt(CoinIdTtl)),
                        PyStr(common_mappings[Upper(symbol)]))
            ELSE [rc |-> g.rc, be |-> be, id |-> PyNone, gets |-> 1, sets |-> 0]
    IN After(Get(rc, be, up, CoinIdKey(symbol)))

\* the coin list came back holding the symbol: its id is stored
CoinIdListed(rc, be, up, t, symbol) ==
    LET Stored(s) ==
            [rc |-> s.rc, be |-> s.be, id |-> PyStr(ListedCoinId(symbol)), sets |-> 1]
    IN Stored(Set(rc, be, up, t, CoinIdKey(symbol), PyStr(ListedCoinId(symbol)),
                  PyInt(CoinIdTtl)))

(***************************************************************************)
(* The part of an invocation after the fetch came back with outcome o =    *)
(* [k, val]: k = "ok" (val the result), "raise" (val the exception's       *)
(* name), "status" (a non-200 response, val the status) or "nocoin" (the   *)
(* coin list does not hold the symbol, or its request failed).  val is a   *)
(* Python value in each case.  The result is [rc, be, val, exc, wrote,     *)
(* sets]: wrote = the invocation's key was stored, sets = the calls of     *)
(* set() made.                                                             *)
(***************************************************************************)
\* a caller that gives up when the result could not be cached
FetchOk_needsWrite(r, config, key, o, rc, be, up, t) ==
    LET After(s) ==
            [rc |-> s.rc, be |-> s.be,
             val |-> IF s.exc = NoException /\ s.val.v
                     THEN HitReturn(r, o.val) ELSE ErrorDict("cache write failed"),
             exc |-> NoException, wrote |-> s.exc = NoException /\ s.val.v, sets |-> 1]
    IN After(Set(rc, be, up, t, key, o.val, TtlAsked(r, config)))

\* a caller that calls set() again when set() returned False
FetchOk_rewrite(r, config, key, o, rc, be, up, t) ==
    LET Again(s1, s) ==
            [rc |-> s.rc, be |-> s.be, val |-> HitReturn(r, o.val), exc |-> NoException,
             wrote |-> s.val.v, sets |-> IF s1.val.v THEN 1 ELSE 2]
        After(s1) ==
            Again(s1, IF s1.val.v THEN s1
                      ELSE Set(s1.rc, s1.be, up, t, key, o.val, TtlAsked(r, config)))
    IN After(Set(rc, be, up, t, key, o.val, TtlAsked(r, config)))

\* the fetch succeeded
FetchOk(r, config, key, o, rc, be, up, t) ==
    LET After(s) ==
            CASE r.inv = "wrapper" ->
                    \* an exception of set() is caught and logged
                    [rc |-> s.rc, be |-> s.be, val |-> o.val, exc |-> NoException,
                     wrote |-> s.exc = NoException /\ s.val.v, sets |-> 1]
              [] r.inv = "mcp" ->
                    \* set() runs inside the try block
                    IF s.exc # NoException
                    THEN [rc |-> s.rc, be |-> s.be, val |-> ErrorDict(s.exc),
                          exc |-> NoException, wrote |-> FALSE, sets |-> 1]
                    ELSE [rc |-> s.rc, be |-> s.be, val |-> o.val,
                          exc |-> NoException, wrote |-> s.val.v, sets |-> 1]
              [] r.inv = "coingecko" ->
                    \* json.dumps(result, indent=2) runs inside the try block
                    IF s.exc # NoException \/ ~JsonSerializable(o.val)
                    THEN [rc |-> s.rc, be |-> s.be,
                          val |-> PyJsonStr(ErrorDict("Failed to fetch")),
                          exc |-> NoException, wrote |-> FALSE, sets |-> 1]
                    ELSE [rc |-> s.rc, be |-> s.be, val |-> PyJsonStr(o.val),
                          exc |-> NoException, wrote |-> s.val.v, sets |-> 1]
    IN After(Set(rc, be, up, t, key, o.val, TtlAsked(r, config)))

\* a wrapper that catches what the function raises and returns None
FetchFailed_swallowed(r, config, key, o, rc, be, up, t) ==
    [rc |-> rc, be |-> be,
     val |-> IF r.inv = "wrapper" THEN PyNone ELSE ErrorDict(PyToStr(o.val)),
     exc |-> NoException, wrote |-> FALSE, sets |-> 0]

\* an invoker that stores the error it is about to report
FetchFailed_cached(r, config, key, o, rc, be, up, t) ==
    LET After(s) ==
            [rc |-> s.rc, be |-> s.be, val |-> HitReturn(r, ErrorDict(PyToStr(o.val))),
             exc |-> IF r.inv = "wrapper" THEN o.val.v ELSE NoException,
             wrote |-> s.exc = NoException /\ s.val.v, sets |-> 1]
    IN After(Set(rc, be, up, t, key, ErrorDict(PyToStr(o.val)), TtlAsked(r, config)))

\* the fetch failed
FetchFailed(r, config, key, o, rc, be, up, t) ==
    CASE o.k = "raise" /\ r.inv = "wrapper" ->
            \* result = func(*args, **kwargs) is outside every try block
            [rc |-> rc, be |-> be, val |-> PyNone, exc |-> o.val.v,
             wrote |-> FALSE, sets |-> 0]
      [] o.k = "raise" /\ r.inv = "mcp" ->
            [rc |-> rc, be |-> be, val |-> ErrorDict(o.val.v),
             exc |-> NoException, wrote |-> FALSE, sets |-> 0]
      [] o.k = "raise" /\ r.inv = "coingecko" ->
            [rc |-> rc, be |-> be, val |-> PyJsonStr(ErrorDict("Failed to fetch")),
             exc |-> NoException, wrote |-> FALSE, sets |-> 0]
      [] o.k = "status" ->
            [rc |-> rc, be |-> be,
             val |-> ErrorDict("Server returned status " \o ToString(o.val.v)),
             exc |-> NoException, wrote |-> FALSE, sets |-> 0]
      [] o.k = "nocoin" ->
            [rc |-> rc, be |-> be,
             val |-> PyJsonStr(ErrorDict("Could not find coin ID")),
             exc |-> NoException, wrote |-> FALSE, sets |-> 0]

\* pend: the coin id is still to be requested (get_crypto_data_coingecko of
\* a symbol that is neither cached nor common)
AfterFetch(r, config, key, o, pend, rc, be, up, t) ==
    LET Counted(a, n) ==
            [rc |-> a.rc, be |-> a.be, val |-> a.val, exc |-> a.exc, wrote |-> a.wrote,
             sets |-> a.sets + n]
        After(id) ==
            IF o.k = "ok"
            THEN Counted(FetchOk(r, config, key, o, id.rc, id.be, up, t), id.sets)
            ELSE Counted(FetchFailed(r, config, key, o, id.rc, id.be, up, t), id.sets)
    IN IF pend /\ o.k # "nocoin"
       THEN After(CoinIdListed(get_redis_client(rc, RedisConfigOf(r, config)), be, up, t,
                               r.args[1].v))
       ELSE After([rc |-> get_redis_client(rc, RedisConfigOf(r, config)), be |-> be,
                   id |-> PyNone, sets |-> 0])

(***************************************************************************)
(* The inputs of the model.                                                *)
(***************************************************************************)
\* the tasks (coroutines or threads) of the process that may call an invoker
Tasks == {"t1", "t2"}
\* the tasks of a process that calls its invokers one after another
Callers == {"t1"}

CryptoServerUrl == "http://localhost:9000"

Quote1 == PyDict(<< <<PyStr("price"), PyInt(50000)>> >>)
Pair12 == PyTuple(<<PyInt(1), PyInt(2)>>)
Stamp == PyObject("datetime")

ReqOrderbook ==
    [inv |-> "mcp", kind |-> "get_crypto_orderbook", args |-> <<PyStr(CryptoServerUrl)>>,
     kwargs |-> << <<"symbol", PyStr("BTC")>> >>, ttl |-> PyNone, prefix |-> ""]
\* a tool the TTL table does not list
ReqFunding ==
    [inv |-> "mcp", kind |-> "get_crypto_funding", args |-> <<PyStr(CryptoServerUrl)>>,
     kwargs |-> << <<"symbol", PyStr("BTC")>>, <<"days", PyInt(30)>> >>,
     ttl |-> PyNone, prefix |-> ""]
\* a tool whose server function answers {"error": ...} with status 200
ReqIndicators ==
    [inv |-> "mcp", kind |-> "calculate_crypto_indicators",
     args |-> <<PyStr(CryptoServerUrl)>>,
     kwargs |-> << <<"symbol", PyStr("BTC")>>, <<"days", PyInt(30)>> >>,
     ttl |-> PyNone, prefix |-> ""]
\* @cached_function() def get_quote(symbol), called as get_quote("BTC")
ReqQuote ==
    [inv |-> "wrapper", kind |-> "get_quote", args |-> <<PyStr("BTC")>>,
     kwargs |-> <<>>, ttl |-> PyInt(DecoratorTtl), prefix |-> ""]
\* get_quote("ETH")
ReqQuoteEth ==
    [inv |-> "wrapper", kind |-> "get_quote", args |-> <<PyStr("ETH")>>,
     kwargs |-> <<>>, ttl |-> PyInt(DecoratorTtl), prefix |-> ""]
ReqCoinGecko ==
    [inv |-> "coingecko", kind |-> "get_crypto_data_coingecko",
     args |-> <<PyStr("BTC"), PyInt(30)>>, kwargs |-> <<>>, ttl |-> PyNone, prefix |-> ""]
\* a symbol that is not among the common ones
ReqCoinGeckoRare ==
    [inv |-> "coingecko", kind |-> "get_crypto_data_coingecko",
     args |-> <<PyStr("XYZ"), PyInt(30)>>, kwargs |-> <<>>, ttl |-> PyNone, prefix |-> ""]
NoReq ==
    [inv |-> "none", kind |-> "", args |-> <<>>, kwargs |-> <<>>, ttl |-> PyNone, prefix |-> ""]

Requests ==
    {ReqOrderbook, ReqFunding, ReqIndicators, ReqQuote, ReqCoinGecko, ReqCoinGeckoRare}

\* the body calculate_crypto_indicators returns when the provider has no
\* prices; the endpoint sends it with status 200
NoPriceData == PyDict(<< <<PyStr("error"), PyStr("No price data available")>> >>)

Outcome(k, val) == [k |-> k, val |-> val]
NoFetch == Outcome("none", PyNone)

\* what the fetch of a request may come back with; pend: the coin id is still
\* to be requested
FetchOutcomes(r, pend) ==
    CASE r.inv = "mcp" ->
            {Outcome("ok", v) : v \in {Quote1, PyNone}}
            \cup {Outcome("status", PyInt(500)), Outcome("raise", PyStr("ClientError"))}
            \cup (IF r.kind = "calculate_crypto_indicators"
                  THEN {Outcome("ok", NoPriceData)} ELSE {})
      [] r.inv = "wrapper" ->
            {Outcome("ok", v) : v \in {Quote1, PyNone, Pair12, Stamp}}
            \cup {Outcome("raise", PyStr("ValueError"))}
      [] r.inv = "coingecko" ->
            {Outcome("ok", Quote1), Outcome("raise", PyStr("HTTPError"))}
            \cup (IF pend THEN {Outcome("nocoin", PyNone)} ELSE {})
      [] OTHER -> {}

AppUrl == "redis://redis:6379"
AppConfigs ==
    {[given |-> TRUE, has_url |-> TRUE, redis_url |-> AppUrl, has_ttl |-> FALSE,
      cache_ttl |-> PyNone]}
    \cup {[given |-> TRUE, has_url |-> TRUE, redis_url |-> AppUrl, has_ttl |-> TRUE,
           cache_ttl |-> PyInt(n)] : n \in {0, 15}}

TestKey == "test:basic"
\* a dict keyed by an int
ByDay == PyDict(<< <<PyInt(1), PyStr("up")>> >>)
SetValues == {Quote1, PyNone, Pair12, Stamp, ByDay}
SetTtls == {PyNone, PyInt(0), PyInt(-1), PyInt(10)}

HashSeeds == {1}

\* the clock runs to MaxNow, in steps drawn from TickLens
TickLens == {5}
MaxNow == 10

\* the HTTP sessions one behaviour may open
MaxSessions == 3

\* the writes of the invocations in flight together: wrote = one of their
\* set() calls has stored its result so far, val = the result stored last
NoWrites == [wrote |-> FALSE, val |-> PyNone]

\* race describes the invocations that were in flight together with the one
\* that ended last: on = they have all ended, wrote and val as in NoWrites,
\* prev = their writes before the last one ended
NoRace == [on |-> FALSE, wrote |-> FALSE, val |-> PyNone, prev |-> NoWrites]

(***************************************************************************)
(* Observation.  `last` records the operation that completed last: what it *)
(* returned or raised and what it did on the way.  chain describes the     *)
(* run of invocations the operation ends: [on, key, t0, ttl, val, stored,  *)
(* healthy, n] says that n invocations (2 = two or more) of `key`          *)
(* completed back to back, the first of which fetched `val` at time t0 and *)
(* asked to store it for ttl seconds; stored = that write succeeded,       *)
(* healthy = the server answered at every lookup and write of the run.     *)
(* A set() called directly starts a chain with n = 0 (val the value set),  *)
(* which a get() of the same key at the same time continues.               *)
(***************************************************************************)
\* over describes the entry a set() replaced: on = the operation before it
\* was a set() of the same key that stored its entry, differs = that entry
\* held another value than the one set now, exp = the expiry time of that
\* entry.  The get() that continues the chain of the set() keeps it.
NoOver == [on |-> FALSE, differs |-> FALSE, exp |-> 0]

NoChain ==
    [on |-> FALSE, key |-> "", t0 |-> 0, ttl |-> PyNone, val |-> PyNone,
     stored |-> FALSE, healthy |-> FALSE, n |-> 0]

NoOp ==
    [op |-> "none", key |-> "", arg |-> PyNone, val |-> PyNone, exc |-> NoException,
     req |-> NoReq, fetch |-> NoFetch, fetches |-> 0, reads |-> 0, writes |-> 0,
     wrote |-> FALSE, ttlAsked |-> PyNone, ttlApplied |-> 0,
     upLookup |-> FALSE, upWrite |-> FALSE, absentBefore |-> FALSE, absentAfter |-> FALSE,
     chain |-> NoChain, raced |-> FALSE, race |-> NoRace, over |-> NoOver,
     recovered |-> FALSE]

IdleCur ==
    [req |-> NoReq, key |-> "", upLookup |-> FALSE, absentBefore |-> FALSE,
     pend |-> FALSE, gets |-> 0, sets |-> 0, raced |-> FALSE, peers |-> NoWrites,
     inst |-> "none", own |-> NoRedisClient]

\* the chain an operation on `key` continues, if any: the operation before
\* it was one of `ops` on the same key and nothing ran in between
ChainAt(ops, key) ==
    IF last.op \in ops /\ last.chain.on /\ last.chain.key = key
       /\ (\A u \in Tasks : pc[u] = "idle")
    THEN last.chain ELSE NoChain

\* the record of a RedisClient method called directly: arg and ttl are the
\* value and the ttl handed to set(), None for the other methods
StoreOp(name, key, arg, ttl, res) ==
    LET stored == name = "set" /\ res.exc = NoException /\ res.val.v
    IN [NoOp EXCEPT !.op = name, !.key = key, !.arg = arg, !.val = res.val,
                    !.exc = res.exc, !.ttlAsked = ttl,
                    !.reads = IF name = "get" THEN 1 ELSE 0,
                    !.writes = IF name = "set" THEN 1 ELSE 0,
                    !.wrote = stored,
                    !.ttlApplied = IF stored THEN res.be[key].expireAt - now ELSE 0,
                    !.upLookup = reachable, !.upWrite = reachable,
                    !.absentBefore = key \notin DOMAIN backend,
                    !.absentAfter = key \notin DOMAIN res.be,
                    !.chain =
                        CASE name = "set" ->
                                [on |-> TRUE, key |-> key, t0 |-> now, ttl |-> ttl,
                                 val |-> arg, stored |-> stored, healthy |-> reachable,
                                 n |-> 0]
                          [] name = "get" /\ ChainAt({"set"}, key).on
                                          /\ ChainAt({"set"}, key).t0 = now ->
                                [ChainAt({"set"}, key) EXCEPT !.n = 1,
                                                              !.healthy = @ /\ reachable]
                          [] OTHER -> NoChain,
                    !.over =
                        CASE name = "set" /\ last.op = "set" /\ last.key = key
                                          /\ last.wrote ->
                                [on |-> TRUE, differs |-> last.arg # arg,
                                 exp |-> last.chain.t0 + last.ttlApplied]
                          [] name = "get" /\ ChainAt({"set"}, key).on
                                          /\ ChainAt({"set"}, key).t0 = now -> last.over
                          [] OTHER -> NoOver,
                    \* the call before this one found the server away and
                    \* this one finds it back
                    !.recovered = last.op # "none" /\ ~last.upLookup /\ reachable]

\* mcp_client = None.  Otherwise [made, session, opened, closed, using]:
\* session = the ClientSession self.session names (0 = None; sessions are
\* numbered in the order __aenter__ created them), opened = the number of
\* sessions created, closed = those close() was called on, using[t] = the
\* session the request of task t was sent on (0 = none in flight)
NoMcp ==
    [made |-> FALSE, session |-> 0, opened |-> 0, closed |-> {},
     using |-> [t \in Tasks |-> 0]]

\* nothing constructed yet
NoHeap == [clients |-> 0, handles |-> 0]

\* a call that runs without interruption constructs a RedisClient when it
\* finds _redis_client None, and a handle when it finds self._client None
Allocating ==
    heap' = [clients |-> heap.clients
                           + (IF ~redis_client.made /\ redis_client'.made THEN 1 ELSE 0),
             handles |-> heap.handles
                           + (IF ~redis_client.client /\ redis_client'.client THEN 1 ELSE 0)]

\* where a task stands: idle, awaiting its fetch, or inside get_redis_client
\* or _get_client (SpecHandle)
Positions ==
    {"idle", "fetching", "constructing", "returning", "holding", "connecting", "connected"}

TypeOK ==
    /\ now \in 0..MaxNow
    /\ reachable \in BOOLEAN
    /\ pc \in [Tasks -> Positions]
    /\ heap.clients \in 0..Cardinality(Tasks)
    /\ heap.handles \in 0..(2 * Cardinality(Tasks))
    /\ appConfig \in AppConfigs
    /\ hashSeed \in HashSeeds
    /\ workload \in Requests \cup {NoReq}
    /\ mcp.session \in 0..MaxSessions
    /\ mcp.opened \in 0..MaxSessions
    /\ mcp.closed \subseteq 1..MaxSessions
    /\ mcp.using \in [Tasks -> 0..MaxSessions]

\* no cache_key_builder run
KbIdle ==
    [posA |-> <<>>, kwA |-> <<>>, posB |-> <<>>, kwB |-> <<>>, seedB |-> 0,
     keyA |-> "", keyB |-> "", done |-> FALSE]

\* a fresh process: nothing imported has touched the cache yet
Fresh ==
    /\ now = 0
    /\ reachable \in BOOLEAN
    /\ backend = [k \in {} |-> 0]
    /\ hashSeed \in HashSeeds
    /\ appConfig \in AppConfigs
    /\ redis_client = NoRedisClient
    /\ pc = [t \in Tasks |-> "idle"]
    /\ cur = [t \in Tasks |-> IdleCur]
    /\ last = NoOp
    /\ heap = NoHeap
    /\ mcp = NoMcp

Init ==
    /\ Fresh
    /\ workload \in Requests
    /\ kb = KbIdle

(***************************************************************************)
(* An invocation up to its fetch: the key, the lookup, and on a hit the    *)
(* return.  On a miss the task goes on to await the fetch.                 *)
(***************************************************************************)
\* the other tasks whose invocation awaits its fetch
InFlight(t) == {u \in Tasks \ {t} : pc[u] = "fetching"}

\* the writes so far of the invocations a new invocation of t joins
PeerWrites(t) ==
    IF InFlight(t) = {} THEN NoWrites ELSE cur[CHOOSE u \in InFlight(t) : TRUE].peers

\* the lookup of key came back as g
Looked(t, r, key, g) ==
    \* the wrapper catches what get() raises; the others do not
    IF r.inv # "wrapper" /\ g.exc # NoException
    THEN /\ last' = [NoOp EXCEPT !.op = "invoke", !.key = key, !.req = r,
                                 !.exc = g.exc, !.reads = 1, !.upLookup = reachable]
         /\ redis_client' = g.rc
         /\ UNCHANGED <<pc, cur, backend>>
    ELSE IF g.exc = NoException /\ g.val.t # "none"
    THEN /\ last' = [NoOp EXCEPT !.op = "invoke", !.key = key, !.req = r,
                                 !.val = HitReturn(r, g.val), !.reads = 1,
                                 !.upLookup = reachable, !.upWrite = reachable,
                                 !.absentBefore = key \notin DOMAIN backend,
                                 !.absentAfter = key \notin DOMAIN backend,
                                 !.chain = IF ChainAt({"invoke"}, key).on
                                           THEN [ChainAt({"invoke"}, key) EXCEPT
                                                   !.n = 2, !.healthy = @ /\ reachable]
                                           ELSE NoChain]
         /\ redis_client' = g.rc
         /\ UNCHANGED <<pc, cur, backend>>
    ELSE \* a miss; get_crypto_data_coingecko goes on to the coin id
         \E id \in {IF r.inv = "coingecko"
                     THEN CoinIdLocal(g.rc, backend, reachable, now, r.args[1].v)
                     ELSE [rc |-> g.rc, be |-> backend, id |-> PyStr(""), gets |-> 0,
                           sets |-> 0]} :
            /\ pc' = [pc EXCEPT ![t] = "fetching"]
            /\ cur' = [u \in Tasks |->
                          IF u = t
                          THEN [req |-> r, key |-> key, upLookup |-> reachable,
                                absentBefore |-> key \notin DOMAIN backend,
                                pend |-> id.id.t = "none", gets |-> 1 + id.gets,
                                sets |-> id.sets,
                                raced |-> InFlight(t) # {},
                                peers |-> PeerWrites(t),
                                inst |-> "none", own |-> NoRedisClient]
                          ELSE IF pc[u] = "fetching" THEN [cur[u] EXCEPT !.raced = TRUE]
                          ELSE cur[u]]
            /\ redis_client' = id.rc
            /\ backend' = id.be
            /\ last' = NoOp

InvokeStart(t, r) ==
    /\ pc[t] = "idle"
    /\ r = workload
    /\ Looked(t, r, CacheKey(hashSeed, r),
              Get(get_redis_client(redis_client, RedisConfigOf(r, appConfig)), backend,
                  reachable, CacheKey(hashSeed, r)))
    /\ UNCHANGED <<now, reachable, hashSeed, appConfig, workload, kb, mcp>>
    /\ Allocating

(***************************************************************************)
(* The fetch comes back: store the result (or not) and return.             *)
(***************************************************************************)
\* the writes of the invocations in flight once t's has ended with a
WritesAfter(t, o, a) ==
    IF a.wrote THEN [wrote |-> TRUE, val |-> o.val] ELSE cur[t].peers

\* the invocation of task t ends with a, after the fetch gave o
Finished(t, o, a) ==
    /\ redis_client' = a.rc
    /\ backend' = a.be
    /\ last' = [NoOp EXCEPT
                  !.op = "invoke", !.key = cur[t].key, !.req = cur[t].req,
                  !.val = a.val, !.exc = a.exc, !.fetch = o, !.fetches = 1,
                  !.reads = cur[t].gets,
                  !.writes = cur[t].sets + a.sets,
                  !.wrote = a.wrote, !.ttlAsked = TtlAsked(cur[t].req, appConfig),
                  !.ttlApplied = IF a.wrote THEN a.be[cur[t].key].expireAt - now ELSE 0,
                  !.upLookup = cur[t].upLookup, !.upWrite = reachable,
                  !.absentBefore = cur[t].absentBefore,
                  !.absentAfter = cur[t].key \notin DOMAIN a.be,
                  !.chain = IF o.k = "ok"
                            THEN [on |-> TRUE, key |-> cur[t].key, t0 |-> now,
                                  ttl |-> TtlAsked(cur[t].req, appConfig),
                                  val |-> o.val, stored |-> a.wrote,
                                  healthy |-> cur[t].upLookup /\ reachable, n |-> 1]
                            ELSE NoChain,
                  !.raced = cur[t].raced,
                  !.race = [on |-> cur[t].raced /\ InFlight(t) = {},
                            wrote |-> WritesAfter(t, o, a).wrote,
                            val |-> WritesAfter(t, o, a).val,
                            prev |-> cur[t].peers]]
    /\ cur' = [u \in Tasks |->
                  IF u = t THEN IdleCur
                  ELSE IF pc[u] = "fetching"
                       THEN [cur[u] EXCEPT !.peers = WritesAfter(t, o, a)]
                       ELSE cur[u]]

FetchReturn(t, o) ==
    /\ pc[t] = "fetching"
    /\ o \in FetchOutcomes(cur[t].req, cur[t].pend)
    /\ Finished(t, o, AfterFetch(cur[t].req, appConfig, cur[t].key, o, cur[t].pend,
                                 redis_client, backend, reachable, now))
    /\ pc' = [pc EXCEPT ![t] = "idle"]
    /\ UNCHANGED <<now, reachable, hashSeed, appConfig, workload, kb, mcp>>
    /\ Allocating

(***************************************************************************)
(* RedisClient methods called directly (the integration test, the cache    *)
(* control helpers), on the instance get_redis_client(config) returns.     *)
(***************************************************************************)
\* the frame of a direct call whose outcome is res
Direct(name, key, arg, ttl, res) ==
    /\ redis_client' = res.rc
    /\ backend' = res.be
    /\ last' = StoreOp(name, key, arg, ttl, res)
    /\ UNCHANGED <<now, reachable, hashSeed, appConfig, pc, cur, workload, kb, mcp>>
    /\ Allocating

TheClient == get_redis_client(redis_client, appConfig)

DoSet(key, value, ttl) ==
    Direct("set", key, value, ttl, Set(TheClient, backend, reachable, now, key, value, ttl))

DoGet(key) == Direct("get", key, PyNone, PyNone, Get(TheClient, backend, reachable, key))

DoDelete(key) == Direct("delete", key, PyNone, PyNone, Delete(TheClient, backend, reachable, key))

DoExists(key) == Direct("exists", key, PyNone, PyNone, Exists(TheClient, backend, reachable, key))

DoGetTtl(key) ==
    Direct("get_ttl", key, PyNone, PyNone,
           get_ttl(TheClient, backend, reachable, now, key))

DoFlushAll == Direct("flush_all", "", PyNone, PyNone, flush_all(TheClient, backend, reachable))

DoIsHealthy == Direct("is_healthy", "", PyNone, PyNone, IsHealthyOp(TheClient, backend, reachable))

DoGetHealthInfo ==
    Direct("get_health_info", "", PyNone, PyNone,
           get_health_info(TheClient, backend, reachable, now))

DoGetCacheStats ==
    Direct("get_cache_stats", "", PyNone, PyNone, get_cache_stats(TheClient, backend, reachable))

(***************************************************************************)
(* The environment: time passes, the server goes away and comes back.      *)
(***************************************************************************)
Tick(d) ==
    /\ now + d <= MaxNow
    /\ now' = now + d
    /\ backend' = Expire(backend, now + d)
    /\ UNCHANGED <<reachable, hashSeed, appConfig, redis_client, pc, cur, last, workload, kb,
                   heap, mcp>>

Outage ==
    /\ reachable
    /\ reachable' = FALSE
    /\ last' = [last EXCEPT !.chain.healthy = FALSE]
    /\ UNCHANGED <<now, backend, hashSeed, appConfig, redis_client, pc, cur, workload, kb,
                   heap, mcp>>

Recover ==
    /\ ~reachable
    /\ reachable' = TRUE
    /\ UNCHANGED <<now, backend, hashSeed, appConfig, redis_client, pc, cur, last, workload,
                   kb, heap, mcp>>

\* the cache control helpers of a decorated function: wrapper.cache_exists
\* and wrapper.clear_cache, which call get_redis_client() without a config
HelperClient == get_redis_client(redis_client, NoConfig)

\* helpers that leave the key prefix out of the key they build
HelperKey_bare(seed, r) == r.kind \o ":" \o cache_key_builder(seed, r.args, r.kwargs)

\* the key the helpers build from their arguments
HelperKey(seed, r) ==
    r.prefix \o ":" \o r.kind \o ":" \o cache_key_builder(seed, r.args, r.kwargs)

CacheExists(r) ==
    /\ r.inv = "wrapper"
    /\ Direct("cache_exists", HelperKey(hashSeed, r), PyNone, PyNone,
              Exists(HelperClient, backend, reachable, HelperKey(hashSeed, r)))

ClearCache(r) ==
    /\ r.inv = "wrapper"
    /\ Direct("clear_cache", HelperKey(hashSeed, r), PyNone, PyNone,
              Delete(HelperClient, backend, reachable, HelperKey(hashSeed, r)))

\* the argument lists the helpers are called with
HelperRequests == {ReqQuote, ReqQuoteEth}

Next ==
    \/ \E t \in Callers : InvokeStart(t, workload)
    \/ \E t \in Callers : \E o \in FetchOutcomes(cur[t].req, cur[t].pend) : FetchReturn(t, o)
    \/ \E r \in HelperRequests : CacheExists(r)
    \/ \E r \in HelperRequests : ClearCache(r)
    \/ \E d \in TickLens : Tick(d)
    \/ Outage
    \/ Recover

Spec == Init /\ [][Next]_vars

(***************************************************************************)
(* The store on its own: a process that only calls RedisClient methods.    *)
(***************************************************************************)
InitStore ==
    /\ Fresh
    /\ workload = NoReq
    /\ kb = KbIdle

NextStore ==
    \/ \E k \in {TestKey}, v \in SetValues, ttl \in SetTtls : DoSet(k, v, ttl)
    \/ \E k \in {TestKey} : DoGet(k)
    \/ \E k \in {TestKey} : DoDelete(k)
    \/ \E k \in {TestKey} : DoExists(k)
    \/ \E k \in {TestKey} : DoGetTtl(k)
    \/ DoFlushAll
    \/ DoIsHealthy
    \/ DoGetHealthInfo
    \/ DoGetCacheStats
    \/ \E d \in TickLens : Tick(d)
    \/ Outage
    \/ Recover

SpecStore == InitStore /\ [][NextStore]_vars

(***************************************************************************)
(* The store on a backend it shares with other programs: something else    *)
(* writes a text that is no JSON under the key, with or without an expiry. *)
(***************************************************************************)
ForeignTtls == {NoExpiry, 10}

\* SET key <text> [EX seconds] sent by another program
ForeignWrite(k, seconds) ==
    /\ reachable
    /\ backend' = [x \in DOMAIN backend \cup {k} |->
                      IF x = k
                      THEN [payload |-> JGarbage,
                            expireAt |-> IF seconds = NoExpiry
                                         THEN NoExpiry ELSE now + seconds]
                      ELSE backend[x]]
    /\ last' = NoOp
    /\ UNCHANGED <<now, reachable, hashSeed, appConfig, redis_client, pc, cur, workload, kb,
                   heap, mcp>>

NextForeign ==
    \/ \E k \in {TestKey}, seconds \in ForeignTtls : ForeignWrite(k, seconds)
    \/ \E k \in {TestKey}, ttl \in {PyNone, PyInt(10)} : DoSet(k, Quote1, ttl)
    \/ \E k \in {TestKey} : DoGet(k)
    \/ \E k \in {TestKey} : DoExists(k)
    \/ \E k \in {TestKey} : DoGetTtl(k)
    \/ DoIsHealthy
    \/ DoGetHealthInfo
    \/ \E d \in TickLens : Tick(d)
    \/ Outage
    \/ Recover

SpecForeign == InitStore /\ [][NextForeign]_vars

(***************************************************************************)
(* Concurrent callers: every task of the process issues the same request,  *)
(* so their invocations meet on one key.  call_mcp_tool is a coroutine     *)
(* that yields only while it awaits the response; a wrapped function runs  *)
(* on the thread of its caller.  Either way the lookup and the write are   *)
(* single Redis commands, and no lock is taken between them.               *)
(***************************************************************************)
RaceRequests == {ReqOrderbook, ReqQuote}

InitRace ==
    /\ Fresh
    /\ workload \in RaceRequests
    /\ kb = KbIdle

NextRace ==
    \/ \E t \in Tasks : InvokeStart(t, workload)
    \/ \E t \in Tasks : \E o \in FetchOutcomes(cur[t].req, cur[t].pend) : FetchReturn(t, o)
    \/ \E d \in TickLens : Tick(d)
    \/ Outage
    \/ Recover

SpecRace == InitRace /\ [][NextRace]_vars

(***************************************************************************)
(* get_redis_client and RedisClient._get_client run by threads, statement  *)
(* by statement.  Both test a name for None and assign it a few bytecodes  *)
(* later with no lock held, so a thread switch may fall in between.        *)
(* cur[t].inst says which instance task t holds: "global" (the one         *)
(* _redis_client names now) or "own" (one that _redis_client named when    *)
(* the task got it and that another thread has replaced since, kept in     *)
(* cur[t].own).                                                            *)
(***************************************************************************)
\* the instance task t holds
Held(t) == IF cur[t].inst = "own" THEN cur[t].own ELSE redis_client

\* if _redis_client is None:
GrcTest(t) ==
    /\ pc[t] = "idle"
    /\ pc' = [pc EXCEPT ![t] = IF redis_client.made THEN "returning" ELSE "constructing"]
    /\ UNCHANGED <<now, reachable, backend, hashSeed, appConfig, redis_client, cur, last,
                   workload, kb, heap, mcp>>

\* _redis_client = RedisClient(redis_url, default_ttl); a task that holds the
\* instance the name pointed to keeps that instance
GrcAssign(t) ==
    /\ pc[t] = "constructing"
    /\ \E config \in {appConfig, NoConfig} :
          redis_client' = get_redis_client(NoRedisClient, config)
    /\ heap' = [heap EXCEPT !.clients = @ + 1]
    /\ cur' = [u \in Tasks |->
                  IF u # t /\ cur[u].inst = "global"
                  THEN [cur[u] EXCEPT !.inst = "own", !.own = redis_client]
                  ELSE cur[u]]
    /\ pc' = [pc EXCEPT ![t] = "returning"]
    /\ UNCHANGED <<now, reachable, backend, hashSeed, appConfig, last, workload, kb, mcp>>

\* return _redis_client
GrcReturn(t) ==
    /\ pc[t] = "returning"
    /\ cur' = [cur EXCEPT ![t].inst = "global"]
    /\ pc' = [pc EXCEPT ![t] = "holding"]
    /\ UNCHANGED <<now, reachable, backend, hashSeed, appConfig, redis_client, last,
                   workload, kb, heap, mcp>>

\* _get_client of the instance held: if self._client is None:
ClientTest(t) ==
    /\ pc[t] = "holding"
    /\ pc' = [pc EXCEPT ![t] = IF Held(t).client THEN "connected" ELSE "connecting"]
    /\ UNCHANGED <<now, reachable, backend, hashSeed, appConfig, redis_client, cur, last,
                   workload, kb, heap, mcp>>

\* self._client = redis.from_url(...); self._client.ping();
\* self._is_connected = True, or False when the ping raises
ClientAssign(t) ==
    /\ pc[t] = "connecting"
    /\ heap' = [heap EXCEPT !.handles = @ + 1]
    /\ IF cur[t].inst = "own"
       THEN /\ cur' = [cur EXCEPT ![t].own =
                          [@ EXCEPT !.client = TRUE, !.connected = reachable]]
            /\ UNCHANGED redis_client
       ELSE /\ redis_client' =
                  [redis_client EXCEPT !.client = TRUE, !.connected = reachable]
            /\ UNCHANGED cur
    /\ pc' = [pc EXCEPT ![t] = "connected"]
    /\ UNCHANGED <<now, reachable, backend, hashSeed, appConfig, last, workload, kb, mcp>>

\* the operation is over and the task lets go of the instance
Release(t) ==
    /\ pc[t] = "connected"
    /\ cur' = [cur EXCEPT ![t] = IdleCur]
    /\ pc' = [pc EXCEPT ![t] = "idle"]
    /\ UNCHANGED <<now, reachable, backend, hashSeed, appConfig, redis_client, last,
                   workload, kb, heap, mcp>>

InitHandle ==
    /\ Fresh
    /\ workload = NoReq
    /\ kb = KbIdle

NextHandle ==
    \/ \E t \in Tasks : GrcTest(t)
    \/ \E t \in Tasks : GrcAssign(t)
    \/ \E t \in Tasks : GrcReturn(t)
    \/ \E t \in Tasks : ClientTest(t)
    \/ \E t \in Tasks : ClientAssign(t)
    \/ \E t \in Tasks : Release(t)
    \/ Outage
    \/ Recover

SpecHandle == InitHandle /\ [][NextHandle]_vars

(***************************************************************************)
(* The tool functions around call_mcp_tool (get_crypto_price_data_mcp and  *)
(* the others): client = get_mcp_client(config); async with client as c:   *)
(* result = await c.call_mcp_tool(...); return json.dumps(result).  They   *)
(* are coroutines of one event loop and yield while the request is out.    *)
(* __aenter__ assigns self.session a new ClientSession, __aexit__ closes   *)
(* the session self.session names when it runs.                            *)
(***************************************************************************)
\* the request fails because its session was closed under it
SessionClosed == Outcome("raise", PyStr("ClientConnectionError"))

\* the tool function up to its first wait: s is the session __aenter__
\* creates, g what the lookup of key came back with.  On a hit (or when
\* get() raises) the function returns and __aexit__ closes self.session
ToolLooked(t, s, key, g) ==
    /\ redis_client' = g.rc
    /\ IF g.exc # NoException \/ g.val.t # "none"
       THEN /\ mcp' = [mcp EXCEPT !.made = TRUE, !.session = s, !.opened = s,
                                  !.closed = @ \cup {s}]
            /\ last' = [NoOp EXCEPT !.op = "tool", !.key = key, !.req = workload,
                                    !.val = IF g.exc = NoException
                                            THEN PyJsonStr(g.val) ELSE PyNone,
                                    !.exc = g.exc, !.reads = 1,
                                    !.upLookup = reachable, !.upWrite = reachable,
                                    !.absentBefore = key \notin DOMAIN backend,
                                    !.absentAfter = key \notin DOMAIN backend]
            /\ UNCHANGED <<pc, cur>>
       ELSE /\ mcp' = [mcp EXCEPT !.made = TRUE, !.session = s, !.opened = s,
                                  !.using[t] = s]
            /\ pc' = [pc EXCEPT ![t] = "fetching"]
            /\ cur' = [cur EXCEPT ![t] =
                          [IdleCur EXCEPT !.req = workload, !.key = key,
                                          !.upLookup = reachable,
                                          !.absentBefore = key \notin DOMAIN backend,
                                          !.gets = 1]]
            /\ last' = NoOp

ToolStart(t) ==
    /\ pc[t] = "idle"
    /\ workload.inv = "mcp"
    /\ mcp.opened < MaxSessions
    /\ ToolLooked(t, mcp.opened + 1, CacheKey(hashSeed, workload),
                  Get(get_redis_client(redis_client, appConfig), backend, reachable,
                      CacheKey(hashSeed, workload)))
    /\ UNCHANGED <<now, reachable, backend, hashSeed, appConfig, workload, kb>>
    /\ Allocating

\* what the request of task t may come back with: a request whose session
\* has been closed may have got its response before, or fails
ToolOutcomes(t) ==
    FetchOutcomes(cur[t].req, FALSE)
    \cup (IF mcp.using[t] \in mcp.closed THEN {SessionClosed} ELSE {})

\* the request of task t is over: call_mcp_tool stores and returns, the tool
\* function leaves the async with block and __aexit__ closes self.session
ToolEnded(t, o, a) ==
    /\ redis_client' = a.rc
    /\ backend' = a.be
    /\ mcp' = [mcp EXCEPT !.closed = IF mcp.session = 0 THEN @ ELSE @ \cup {mcp.session},
                          !.using[t] = 0]
    /\ last' = [NoOp EXCEPT !.op = "tool", !.key = cur[t].key, !.req = cur[t].req,
                            !.val = PyJsonStr(a.val), !.exc = a.exc, !.fetch = o,
                            !.fetches = 1, !.reads = cur[t].gets, !.writes = a.sets,
                            !.wrote = a.wrote,
                            !.upLookup = cur[t].upLookup, !.upWrite = reachable,
                            !.absentBefore = cur[t].absentBefore,
                            !.absentAfter = cur[t].key \notin DOMAIN a.be]
    /\ cur' = [cur EXCEPT ![t] = IdleCur]
    /\ pc' = [pc EXCEPT ![t] = "idle"]

ToolReturn(t, o) ==
    /\ pc[t] = "fetching"
    /\ o \in ToolOutcomes(t)
    /\ ToolEnded(t, o, AfterFetch(cur[t].req, appConfig, cur[t].key, o, FALSE,
                                  redis_client, backend, reachable, now))
    /\ UNCHANGED <<now, reachable, hashSeed, appConfig, workload, kb>>
    /\ Allocating

SessionRequests == {ReqOrderbook, ReqIndicators}

InitSession ==
    /\ Fresh
    /\ workload \in SessionRequests
    /\ kb = KbIdle

NextSession ==
    \/ \E t \in Tasks : ToolStart(t)
    \/ \E t \in Tasks : \E o \in ToolOutcomes(t) : ToolReturn(t, o)
    \/ \E d \in TickLens : Tick(d)
    \/ Outage
    \/ Recover

SpecSession == InitSession /\ [][NextSession]_vars

(***************************************************************************)
(* cache_key_builder on its own: two argument lists are drawn, and one     *)
(* step builds the key of each: of the first in this process, of the       *)
(* second in the process whose string-hash seed is kb.seedB (this process  *)
(* in SpecKeys, any process sharing the backend in SpecShared).            *)
(***************************************************************************)
KeyValues ==
    {PyInt(30), PyStr("30"), PyStr("BTC"), PyStr("30:symbol:BTC"),
     PyList(<<PyInt(1), PyInt(2)>>)}

PositionalLists == {<<PyStr("x:y")>>, <<PyStr("x"), PyStr("y")>>, <<PyStr("x")>>}

NameSet == {ParamNames[i] : i \in 1..Len(ParamNames)}

\* the keyword mappings over the parameter names, in every insertion order
KeywordLists ==
    UNION {{kw \in [1..n -> NameSet \X KeyValues] :
                \A i, j \in 1..n : i # j => kw[i][1] # kw[j][1]} :
           n \in 0..Len(ParamNames)}

InitKeys ==
    /\ Fresh
    /\ reachable
    /\ ~appConfig.has_ttl
    /\ workload = NoReq
    /\ \E pa \in PositionalLists, pb \in PositionalLists :
       \E ka \in KeywordLists, kb0 \in KeywordLists :
          kb = [posA |-> pa, kwA |-> ka, posB |-> pb, kwB |-> kb0, seedB |-> hashSeed,
                keyA |-> "", keyB |-> "", done |-> FALSE]

BuildKeys ==
    /\ ~kb.done
    /\ kb' = [kb EXCEPT !.keyA = cache_key_builder(hashSeed, kb.posA, kb.kwA),
                        !.keyB = cache_key_builder(kb.seedB, kb.posB, kb.kwB),
                        !.done = TRUE]
    /\ UNCHANGED <<now, reachable, backend, hashSeed, appConfig, redis_client, pc, cur,
                   last, workload, heap, mcp>>

NextKeys == BuildKeys

SpecKeys == InitKeys /\ [][NextKeys]_vars

\* arguments that are not str, int or float: a nested mapping in two
\* insertion orders, a sequence, None
MapAB == PyDict(<< <<PyStr("a"), PyInt(1)>>, <<PyStr("b"), PyInt(2)>> >>)
MapBA == PyDict(<< <<PyStr("b"), PyInt(2)>>, <<PyStr("a"), PyInt(1)>> >>)
CompoundValues == {MapAB, MapBA, PyList(<<PyInt(1), PyInt(2)>>), PyNone}

\* the string-hash seeds of the processes that share the backend
PeerSeeds == {1, 2}

SharedKeywordLists ==
    {<<>>} \cup {<< <<n, v>> >> : n \in NameSet, v \in CompoundValues}

InitShared ==
    /\ Fresh
    /\ reachable
    /\ ~appConfig.has_ttl
    /\ workload = NoReq
    /\ \E a \in CompoundValues, b \in CompoundValues :
       \E ka \in SharedKeywordLists, kb0 \in SharedKeywordLists :
       \E seed \in PeerSeeds :
          kb = [posA |-> <<a>>, kwA |-> ka, posB |-> <<b>>, kwB |-> kb0, seedB |-> seed,
                keyA |-> "", keyB |-> "", done |-> FALSE]

NextShared == BuildKeys

SpecShared == InitShared /\ [][NextShared]_vars

\* two keyword lists hold the same name -> value items
SameItems(a, b) == {a[i] : i \in 1..Len(a)} = {b[i] : i \in 1..Len(b)}

(***************************************************************************)
(* Properties of the store (SpecStore).                                    *)
(***************************************************************************)
\* Python's ==, on the values of the model
PyEq(a, b) == a.t = b.t /\ a.v = b.v

\* the values JSON represents exactly: null, booleans, integers, strings,
\* lists of such values and dicts of such values keyed by strings
RECURSIVE JsonNative(_)
JsonNative(x) ==
    CASE x.t \in {"none", "bool", "int", "str"} -> TRUE
      [] x.t = "list" -> \A i \in 1..Len(x.v) : JsonNative(x.v[i])
      [] x.t = "dict" ->
            \A i \in 1..Len(x.v) : x.v[i][1].t = "str" /\ JsonNative(x.v[i][2])
      [] OTHER -> FALSE

\* a get(key) that directly followed a set(key, value, ttl), the server
\* answering both
SetThenGet ==
    /\ last.op = "get"
    /\ last.chain.on
    /\ last.chain.n = 1
    /\ last.chain.healthy

\* C2 as claimed: for all keys, JSON-serializable values and TTLs, while the
\* backend is healthy, set(key, value, ttl) followed immediately by get(key)
\* returns a value equal to the value that was set.
C2_RoundTripAsClaimed ==
    (SetThenGet /\ JsonSerializable(last.chain.val)) => PyEq(last.val, last.chain.val)

\* C2 amended: for all keys, all values JSON represents exactly and all TTLs
\* whose effective value (the ttl, or the store's default when the ttl is None
\* or 0) is a positive integer, while the backend is healthy, set returns
\* true and the get that follows immediately returns an equal value.
C2_RoundTrip ==
    (/\ SetThenGet
     /\ JsonNative(last.chain.val)
     /\ EffectiveTtl(redis_client, last.chain.ttl).t = "int"
     /\ EffectiveTtl(redis_client, last.chain.ttl).v > 0)
    => (last.chain.stored /\ PyEq(last.val, last.chain.val))

\* a dict was set with the default TTL and read back equal
C2_Witness ==
    /\ SetThenGet
    /\ last.chain.val = Quote1
    /\ last.chain.ttl = PyNone
    /\ last.chain.stored
    /\ PyEq(last.val, Quote1)

StoreOps ==
    {"set", "get", "delete", "exists", "get_ttl", "is_healthy", "get_health_info",
     "flush_all", "get_cache_stats"}

\* the call met a failure: the server did not answer, or the value handed to
\* set() does not serialize
MetFailure == ~last.upLookup \/ (last.op = "set" /\ ~JsonSerializable(last.arg))

\* the documented result of a failed call
SafeDefault ==
    CASE last.op \in {"set", "delete", "exists", "is_healthy", "flush_all"} ->
            last.val = PyBool(FALSE)
      [] last.op = "get" -> last.val = PyNone
      [] last.op = "get_ttl" -> last.val = PyInt(KeyAbsent)
      [] last.op = "get_health_info" ->
            /\ DictGet(last.val, "status") = PyStr("unhealthy")
            /\ DictGet(last.val, "connected") = PyBool(FALSE)
      [] last.op = "get_cache_stats" -> DictGet(last.val, "total_keys") = PyInt(0)

\* C4: no public operation of RedisClient raises, in any connection state
\* and for any backend or serialization failure; a failed call returns its
\* safe default (false, absent, -2, an unhealthy or zeroed record).
C4_StoreNeverRaises ==
    last.op \in StoreOps =>
        /\ last.exc = NoException
        /\ MetFailure => SafeDefault

\* get_ttl was called on a process that never reached the server
C4_Witness ==
    /\ last.op = "get_ttl"
    /\ ~last.upLookup
    /\ ~redis_client.connected
    /\ last.exc = NoException
    /\ last.val = PyInt(KeyAbsent)

\* the operations that send one command to the server
CommandOps == {"set", "get", "delete", "exists", "get_ttl", "flush_all"}

\* C14 as claimed: after each is_healthy call the connection-health flag
\* equals the value it returned, and after any set/get/delete/exists/get_ttl/
\* flush_all call whose backend command fails (the server does not answer)
\* the flag is false.
C14_HealthFlagAsClaimed ==
    /\ last.op = "is_healthy" => redis_client.connected = last.val.v
    /\ (last.op \in CommandOps /\ ~last.upLookup) => ~redis_client.connected

\* the operation before this step was delete(k), and this step is the get(k)
\* or the exists(k) that follows it
ReadsAfterDelete(k) ==
    /\ last.op = "delete"
    /\ last.key = k
    /\ DoGet(k) \/ DoExists(k)

\* get(k) returned absent, or exists(k) false
ReportsAbsent == last'.val = (IF last'.op = "get" THEN PyNone ELSE PyBool(FALSE))

\* C15 as claimed: after delete(key), for every key and every prior state of
\* the store and backend, a following get(key) returns absent and
\* exists(key) returns false.
C15_DeleteAsClaimed ==
    [][\A k \in {TestKey} : ReadsAfterDelete(k) => ReportsAbsent]_vars

\* C15 amended: a delete(key) called while the backend is reachable leaves
\* no entry under key; a following get(key) returns absent and exists(key)
\* false; and the key stays absent, get and exists answering so, until it is
\* set again.  (A delete called while the backend is unreachable returns
\* false and removes nothing.)
C15_DeleteRemoves ==
    [][\A k \in {TestKey} :
          /\ (last'.op = "delete" /\ last'.key = k /\ last'.upLookup)
                => k \notin DOMAIN backend'
          /\ (ReadsAfterDelete(k) /\ last.upLookup) => ReportsAbsent
          /\ (k \notin DOMAIN backend /\ (DoGet(k) \/ DoExists(k))) => ReportsAbsent
          /\ (k \notin DOMAIN backend /\ k \in DOMAIN backend') => last'.op = "set"]_vars

\* delete found the entry and removed it
C15_Witness ==
    /\ last.op = "delete"
    /\ last.key = TestKey
    /\ last.upLookup
    /\ ~last.absentBefore
    /\ last.val = PyBool(TRUE)
    /\ TestKey \notin DOMAIN backend

\* the operation before this step was a set(k, v, ttl) with ttl > 0 that
\* returned true, and this step is the get_ttl(k) that follows it, before
\* the ttl has run out and with the server answering
TtlAfterSet(k) ==
    /\ last.op = "set"
    /\ last.key = k
    /\ last.val = PyBool(TRUE)
    /\ last.ttlAsked.t = "int"
    /\ last.ttlAsked.v > 0
    /\ now < last.chain.t0 + last.ttlAsked.v
    /\ reachable
    /\ DoGetTtl(k)

\* C16: for every ttl > 0, get_ttl(key) called right after a successful
\* set(key, v, ttl) returns r with 0 < r <= ttl.
C16_TtlAfterSet ==
    [][\A k \in {TestKey} :
          TtlAfterSet(k) => (last'.val.v > 0 /\ last'.val.v <= last.ttlAsked.v)]_vars

\* get_ttl answered 10 at the moment an entry was set for ten seconds
C16_Witness ==
    /\ last.op = "get_ttl"
    /\ last.key = TestKey
    /\ last.val = PyInt(10)
    /\ TestKey \in DOMAIN backend
    /\ backend[TestKey].expireAt = now + 10

\* the set() that ended last stored its entry
SetStored == last.op = "set" /\ last.val = PyBool(TRUE)

\* C17 as claimed: whenever the caller of set(key, value, ttl) provides a
\* ttl, the TTL applied to the backend record is exactly that ttl; only when
\* the ttl is omitted (None) is the store's default TTL applied.
C17_EffectiveTtlAsClaimed ==
    SetStored =>
        IF last.ttlAsked.t = "none"
        THEN PyEq(PyInt(last.ttlApplied), redis_client.default_ttl)
        ELSE PyEq(PyInt(last.ttlApplied), last.ttlAsked)

\* the entry stored under key, as get() decodes it
EntryAt(key) == JsonLoads(backend[key].payload)

\* C18: every entry in the backend carries a ttl field equal to the TTL the
\* backend was given for the record and a timestamp the store took when it
\* wrote it, so the time written plus the embedded ttl is the backend's
\* expiry time; the entry a set() has just stored carries the TTL applied
\* and the time of that call.
C18_EntryAgrees ==
    /\ \A k \in DOMAIN backend :
          /\ DictGet(EntryAt(k), "ttl").t = "int"
          /\ DictGet(EntryAt(k), "timestamp")
                = PyStr(IsoFormat(backend[k].expireAt - DictGet(EntryAt(k), "ttl").v))
          /\ backend[k].expireAt - DictGet(EntryAt(k), "ttl").v <= now
    /\ (SetStored /\ last.key \in DOMAIN backend) =>
          /\ DictGet(EntryAt(last.key), "ttl") = PyInt(last.ttlApplied)
          /\ DictGet(EntryAt(last.key), "timestamp") = PyStr(IsoFormat(last.chain.t0))

\* an entry written five seconds after the start with the default TTL
C18_Witness ==
    /\ SetStored
    /\ last.ttlAsked = PyNone
    /\ last.chain.t0 = 5
    /\ last.key \in DOMAIN backend
    /\ DictGet(EntryAt(last.key), "ttl") = redis_client.default_ttl
    /\ DictGet(EntryAt(last.key), "timestamp") = PyStr(IsoFormat(5))

\* the get() that ended last found an entry under its key, the server
\* answering
GotLiveEntry == last.op = "get" /\ last.upLookup /\ ~last.absentBefore

\* C22 as claimed: for every key that holds an unexpired entry written by
\* set, while the backend is healthy, get(key) returns a present result;
\* get returns absent only on a miss, an expiry, a backend failure or a
\* malformed payload.
C22_LiveEntryHitsAsClaimed == GotLiveEntry => last.val # PyNone

\* the set() that ended last stored its entry right after another set() of
\* the same key had stored one
SetOverSet == SetStored /\ last.over.on

\* a get(key) that directly followed the second of two set() calls of key
\* that both stored their entry, the server answering
GetAfterTwoSets == SetThenGet /\ last.chain.stored /\ last.over.on

\* C23 as claimed: after a successful set(key, v1, t1) followed by a
\* successful set(key, v2, t2) on a healthy backend, get(key) returns v2.
C23_OverwriteAsClaimed == GetAfterTwoSets => PyEq(last.val, last.chain.val)

\* C23 amended: after a successful set(key, v1, t1) followed by a successful
\* set(key, v2, t2) on a healthy backend, the entry under key is the second
\* one alone: it holds v2 as JSON encodes it and the time of the second call,
\* and it expires the effective TTL of t2 after the second call; get(key)
\* returns v2 as JSON decodes it, which equals v2 for every value JSON
\* represents exactly.
C23_SetOverwrites ==
    /\ (SetOverSet /\ last.key \in DOMAIN backend) =>
          /\ DictGet(EntryAt(last.key), "value") = JsonLoads(JsonDumps(last.arg))
          /\ DictGet(EntryAt(last.key), "timestamp") = PyStr(IsoFormat(last.chain.t0))
          /\ backend[last.key].expireAt
                = last.chain.t0 + EffectiveTtl(redis_client, last.ttlAsked).v
    /\ GetAfterTwoSets =>
          /\ last.val = JsonLoads(JsonDumps(last.chain.val))
          /\ JsonNative(last.chain.val) => PyEq(last.val, last.chain.val)

\* another value was stored at time 0 for ten seconds, a quote at time 5 for
\* ten seconds; get returned the quote and the entry expires at 15
C23_Witness ==
    /\ GetAfterTwoSets
    /\ last.over.differs
    /\ last.over.exp = 10
    /\ last.chain.val = Quote1
    /\ last.chain.t0 = 5
    /\ last.chain.ttl = PyInt(10)
    /\ last.val = Quote1
    /\ backend[last.key].expireAt = 15

\* the TTL set(key, value, ttl) hands to SETEX is one the server takes
TtlTaken(rc, ttl) == EffectiveTtl(rc, ttl).t = "int" /\ EffectiveTtl(rc, ttl).v > 0

\* the operations the claim names
KeyOps == {"get", "set", "exists", "delete", "get_ttl"}

\* C27: whatever operations and health checks ran while the backend was
\* unreachable, a get/set/exists/delete/get_ttl call made while the backend
\* is reachable reaches it and succeeds: get returns the stored value,
\* exists and get_ttl what the backend holds, delete removes the entry, and
\* set stores every serializable value whose TTL the server takes.  No state
\* leaves the store disabled.
C27_RecoversAtOnce ==
    (last.op \in KeyOps /\ last.upLookup) =>
        /\ redis_client.connected
        /\ CASE last.op = "get" ->
                    IF last.absentBefore THEN last.val = PyNone
                    ELSE last.key \in DOMAIN backend
                            => last.val = DictGet(EntryAt(last.key), "value")
             [] last.op = "exists" -> last.val = PyBool(~last.absentBefore)
             [] last.op = "get_ttl" ->
                    IF last.absentBefore THEN last.val = PyInt(KeyAbsent)
                    ELSE /\ last.val.v > 0
                         /\ last.key \in DOMAIN backend
                               => last.val.v >= RedisTtl(backend, now, last.key)
             [] last.op = "delete" ->
                    last.val = PyBool(~last.absentBefore) /\ last.absentAfter
             [] last.op = "set" ->
                    (JsonSerializable(last.arg) /\ TtlTaken(redis_client, last.ttlAsked))
                    => (/\ last.val = PyBool(TRUE)
                        /\ ~last.absentAfter
                        /\ last.key \in DOMAIN backend
                              => DictGet(EntryAt(last.key), "value")
                                    = JsonLoads(JsonDumps(last.arg)))

\* the call before found the server away; the server came back and this
\* get() returned the stored quote
C27_Witness ==
    /\ last.op = "get"
    /\ last.recovered
    /\ last.upLookup
    /\ ~last.absentBefore
    /\ last.val = Quote1

\* C30: every entry in the backend that was written through set() has a
\* finite, positive remaining TTL, whatever ttl argument set() was given
\* (0, a negative number and None included) and whatever default the store
\* was configured with; get_ttl never returns -1 for such a key.
C30_NoImmortalEntries ==
    /\ \A k \in DOMAIN backend :
          /\ backend[k].expireAt # NoExpiry
          /\ RedisTtl(backend, now, k) > 0
    /\ last.op = "get_ttl" =>
          /\ last.val # PyInt(NoExpiry)
          /\ (last.upLookup /\ ~last.absentBefore) => last.val.v > 0

\* set(key, value, 0) on a store whose default TTL is 15 stored an entry
\* that expires in 15 seconds
C30_Witness ==
    /\ SetStored
    /\ last.ttlAsked = PyInt(0)
    /\ redis_client.default_ttl = PyInt(15)
    /\ TestKey \in DOMAIN backend
    /\ RedisTtl(backend, now, TestKey) = 15

(***************************************************************************)
(* Properties of the store on a shared backend (SpecForeign).              *)
(***************************************************************************)
\* this step is a call of one of the read-only operations
ReadStep ==
    \/ \E k \in {TestKey} : DoGet(k) \/ DoExists(k) \/ DoGetTtl(k)
    \/ DoIsHealthy
    \/ DoGetHealthInfo

\* C29: get, exists, get_ttl, is_healthy and get_health_info leave the
\* backend as it was, whether they succeed or fail (get on a malformed
\* payload included): no entry is added, removed or overwritten and no
\* entry's remaining TTL changes.
C29_ReadsLeaveBackend ==
    [][ReadStep =>
          /\ backend' = backend
          /\ \A k \in {TestKey} :
                RedisTtl(backend', now', k) = RedisTtl(backend, now, k)]_vars

\* get() met a payload that is no JSON, returned None, and the entry is
\* still there with its expiry
C29_Witness ==
    /\ last.op = "get"
    /\ last.upLookup
    /\ ~last.absentBefore
    /\ last.val = PyNone
    /\ TestKey \in DOMAIN backend
    /\ backend[TestKey].payload = JGarbage
    /\ RedisTtl(backend, now, TestKey) = 10

(***************************************************************************)
(* Properties of the invokers (Spec).                                      *)
(***************************************************************************)
\* the form in which invoker r hands a fetched result v to its caller
Returned(r, v) == IF r.inv = "coingecko" THEN PyJsonStr(v) ELSE v

\* the run of invocations that a call of the workload would continue
Before == ChainAt({"invoke"}, CacheKey(hashSeed, workload))

\* task t calls the invoker again: the call before it, on the same key,
\* fetched a result, and the server has answered throughout
CallsAgain(t) ==
    /\ InvokeStart(t, workload)
    /\ Before.on
    /\ Before.healthy
    /\ reachable

\* C1 as claimed: for every operation kind, argument mapping and fetch result,
\* calling call_mcp_tool or a cached_function wrapper twice in sequence on the
\* same key, the backend healthy and the TTL not elapsed, invokes the fetch
\* once in total (the second call is a hit) and returns the same result twice.
C1_IdempotenceAsClaimed ==
    [][\A t \in Tasks :
          (/\ CallsAgain(t)
           /\ workload.inv \in {"mcp", "wrapper"}
           /\ now < Before.t0 + Before.ttl.v)
          => (/\ pc'[t] = "idle"
              /\ last'.fetches = 0
              /\ PyEq(last'.val, Before.val))]_vars

\* the invocation that ended last could not reach the server at its lookup,
\* or fetched and could not reach it at its write
CacheWasDown ==
    /\ last.op = "invoke"
    /\ ~last.upLookup \/ (last.fetches = 1 /\ ~last.upWrite)

\* C3: whenever the cache backend is unreachable (before, during or after the
\* lookup), an invocation still calls the fetch exactly once and returns the
\* fetch's result; the failed read and the failed write neither change nor
\* suppress it.
C3_FailOpen ==
    CacheWasDown =>
        /\ last.fetches = 1
        /\ last.fetch.k = "ok" =>
              (last.exc = NoException /\ PyEq(last.val, Returned(last.req, last.fetch.val)))

\* the server was away for the whole invocation and the caller got the result
C3_Witness ==
    /\ last.op = "invoke"
    /\ ~last.upLookup
    /\ ~last.upWrite
    /\ last.fetches = 1
    /\ last.fetch = Outcome("ok", Quote1)
    /\ ~last.wrote
    /\ last.val = Quote1

\* the fetch of the invocation that ended last raised
FetchRaised == last.op = "invoke" /\ last.fetch.k = "raise"

FetchFailedLast ==
    last.op = "invoke" /\ last.fetches = 1 /\ last.fetch.k \in {"raise", "status", "nocoin"}

\* C6 as claimed: in any invocation whose fetch fails no cache write is
\* performed for that call, so a key absent before it is absent after it.
C6_NoWriteAsClaimed ==
    FetchFailedLast =>
        /\ last.writes = 0
        /\ last.absentBefore => last.absentAfter

\* C6 amended: in any invocation whose fetch fails the invocation's own key
\* is not written, so if it was absent before the invocation it is absent
\* after it; call_mcp_tool and the wrapper make no write at all, while
\* get_crypto_data_coingecko may have stored the coin id of the symbol.
C6_NoWrite ==
    FetchFailedLast =>
        /\ ~last.wrote
        /\ last.absentBefore => last.absentAfter
        /\ last.req.inv \in {"mcp", "wrapper"} => last.writes = 0
        /\ last.writes <= 1

\* a request of call_mcp_tool failed while the server would have taken a
\* write, and the key is still absent
C6_Witness ==
    /\ FetchFailedLast
    /\ last.req.inv = "mcp"
    /\ last.upLookup
    /\ last.upWrite
    /\ last.absentBefore
    /\ last.absentAfter
    /\ last.writes = 0

\* C7 as claimed: after an invocation fetched and stored a result at time t
\* with policy TTL T, every invocation on the key before t+T (backend
\* healthy) returns the stored result without fetching, and the first one
\* after t+T finds the entry absent and fetches again.
C7_ExpiryAsClaimed ==
    [][\A t \in Tasks :
          (CallsAgain(t) /\ Before.stored)
          => (/\ now < Before.t0 + Before.ttl.v
                 => (/\ pc'[t] = "idle"
                     /\ last'.fetches = 0
                     /\ PyEq(last'.val,
                             HitReturn(workload, JsonLoads(JsonDumps(Before.val)))))
              /\ now > Before.t0 + Before.ttl.v => pc'[t] = "fetching")]_vars

\* the TTL the policy gives the tool of the invocation that ended last: the
\* table's, or for a tool it does not list the config's cache_ttl, 300 if unset
PolicyTtl ==
    IF last.req.kind \in DOMAIN cache_durations
    THEN PyInt(cache_durations[last.req.kind])
    ELSE IF appConfig.has_ttl THEN appConfig.cache_ttl ELSE PyInt(McpDefaultTtl)

\* C10 as claimed: the TTL with which call_mcp_tool's result is written equals
\* the table's TTL for a listed tool and the configured default (cache_ttl,
\* 300 when unset) for an unlisted one, whatever values these hold.
C10_PolicyTtlAsClaimed ==
    (last.op = "invoke" /\ last.req.inv = "mcp" /\ last.wrote)
    => PyEq(PyInt(last.ttlApplied), PolicyTtl)

\* C12: every invocation of call_mcp_tool and of a cached_function wrapper
\* makes exactly one cache read, at most one cache write and at most one
\* call of the fetch, whether it hits, misses, finds the server away or sees
\* its fetch fail; a hit makes no fetch and no write.
C12_BoundedEffects ==
    (last.op = "invoke" /\ last.req.inv \in {"mcp", "wrapper"}) =>
        /\ last.reads = 1
        /\ last.writes <= 1
        /\ last.fetches <= 1
        /\ last.fetches = 0 => last.writes = 0
        /\ last.fetch.k # "ok" => last.writes = 0

\* a wrapped function returned a value json.dumps rejects: one read, one
\* fetch and one call of set(), which stored nothing
C12_Witness ==
    /\ last.op = "invoke"
    /\ last.req = ReqQuote
    /\ last.fetch = Outcome("ok", Stamp)
    /\ last.upLookup
    /\ last.upWrite
    /\ last.reads = 1
    /\ last.fetches = 1
    /\ last.writes = 1
    /\ ~last.wrote

\* what get() returns for the key of the workload in the current state
Lookup ==
    Get(get_redis_client(redis_client, RedisConfigOf(workload, appConfig)), backend,
        reachable, CacheKey(hashSeed, workload))

\* task t calls the invoker and the lookup is a hit
HitBy(t) == InvokeStart(t, workload) /\ Lookup.val.t # "none"

ConfigUrl(config) == IF config.has_url THEN config.redis_url ELSE DefaultRedisUrl

\* the store the process uses is configured as the application's config says
ConfiguredByApp ==
    /\ redis_client.made
    /\ redis_client.redis_url = ConfigUrl(appConfig)
    /\ PyEq(redis_client.default_ttl, ConfigCacheTtl(appConfig, DefaultTtl))

\* C21 as claimed: the backend URL and default TTL in force for every cache
\* operation are those of the configuration the application supplies; a
\* decorated function or one of its helpers called before the first call
\* that carries the config does not cause a differently configured store to
\* be used by call_mcp_tool or the fallback tool.
C21_ConfigAsClaimed ==
    (last.op = "invoke" /\ last.req.inv \in {"mcp", "coingecko"}) => ConfiguredByApp

\* a result that reports an error: a dict with an "error" item
ReportsError(v) == v.t = "dict" /\ \E i \in 1..Len(v.v) : v.v[i][1] = PyStr("error")

\* C24 as claimed: after any sequence of tool calls through call_mcp_tool
\* and the fallback tools, no cache entry holds a result that reports an
\* error.
C24_NoCachedErrorsAsClaimed ==
    \A k \in DOMAIN backend : ~ReportsError(DictGet(EntryAt(k), "value"))

\* the wrapper call of r that ended last stored its result, and the entry
\* has not expired
StoredBy(r) ==
    /\ last.op = "invoke"
    /\ last.req = r
    /\ last.wrote
    /\ last.key \in DOMAIN backend

\* the operation that ended last was clear_cache of r's arguments, and it
\* returned true
Cleared(r) ==
    /\ last.op = "clear_cache"
    /\ last.key = HelperKey(hashSeed, r)
    /\ last.val = PyBool(TRUE)

\* C28: for every argument list, the helpers of a decorated function address
\* the entry the wrapper uses: once wrapper(args) has stored a result,
\* cache_exists(args) is true (the server answering, the entry unexpired);
\* when clear_cache(args) returns true the entry is gone, cache_exists(args)
\* is then false and the next wrapper(args) calls the function again; and
\* neither helper touches an entry of another argument list.
C28_HelpersAddressEntry ==
    [][\A r \in HelperRequests :
          /\ (StoredBy(r) /\ reachable /\ CacheExists(r)) => last'.val = PyBool(TRUE)
          /\ (ClearCache(r) /\ last'.val = PyBool(TRUE))
                => (/\ CacheKey(hashSeed, r) \in DOMAIN backend
                    /\ CacheKey(hashSeed, r) \notin DOMAIN backend')
          /\ (Cleared(r) /\ CacheExists(r)) => last'.val = PyBool(FALSE)
          /\ \A t \in Callers :
                (Cleared(r) /\ InvokeStart(t, r)) => pc'[t] = "fetching"
          /\ (CacheExists(r) \/ ClearCache(r))
                => \A k \in DOMAIN backend \ {CacheKey(hashSeed, r)} :
                      k \in DOMAIN backend' /\ backend'[k] = backend[k]]_vars

\* get_quote("BTC") had stored a result; clear_cache("BTC") found the entry,
\* removed it and returned true
C28_Witness ==
    /\ Cleared(ReqQuote)
    /\ workload = ReqQuote
    /\ last.upLookup
    /\ ~last.absentBefore
    /\ last.absentAfter
    /\ CacheKey(hashSeed, ReqQuote) \notin DOMAIN backend

(***************************************************************************)
(* Properties of concurrent invocations (SpecRace).                        *)
(***************************************************************************)
\* the value held by the entry stored under key
StoredValue(key) == DictGet(JsonLoads(backend[key].payload), "value")

\* the invocation that ended last was in flight together with another one
RacedLast == last.op = "invoke" /\ last.raced

\* C11: invocations on one key that run concurrently and all miss do not
\* wait for one another: each that was in flight together with another has
\* run its own fetch, once, and returned its own fetch's result (not the
\* other's); its write replaces the entry an earlier one of them wrote, so
\* once all have ended the entry under the key holds the result that was
\* written last.
C11_LastWriterWins ==
    RacedLast =>
        /\ last.fetches = 1
        /\ last.fetch.k = "ok" =>
              (last.exc = NoException /\ PyEq(last.val, Returned(last.req, last.fetch.val)))
        /\ (last.wrote /\ last.key \in DOMAIN backend) =>
              StoredValue(last.key) = JsonLoads(JsonDumps(last.fetch.val))
        /\ (last.race.on /\ last.race.wrote /\ last.key \in DOMAIN backend) =>
              StoredValue(last.key) = JsonLoads(JsonDumps(last.race.val))

\* two invocations missed together and fetched different results; the one
\* that ended first stored its result, the one that ended last replaced it
C11_Witness ==
    /\ RacedLast
    /\ last.race.on
    /\ last.wrote
    /\ last.absentBefore
    /\ last.race.prev = [wrote |-> TRUE, val |-> Quote1]
    /\ last.fetch.val = PyNone
    /\ last.key \in DOMAIN backend
    /\ StoredValue(last.key) = PyNone

(***************************************************************************)
(* Properties of the shared handle (SpecHandle).                           *)
(***************************************************************************)
\* C20 as claimed: under any interleaving of get_redis_client calls and
\* store operations, the process constructs at most one RedisClient and
\* that instance creates at most one connection handle; an operation that
\* finds a handle creates none.
C20_OneHandleAsClaimed ==
    /\ heap.clients <= 1
    /\ heap.handles <= 1

(***************************************************************************)
(* Properties of the shared MCP client (SpecSession).                      *)
(***************************************************************************)
\* C25 as claimed: the HTTP session an in-flight call is using is never
\* closed or replaced by another call entering or leaving the client's
\* async context.
C25_NoInterferenceAsClaimed ==
    \A t \in Tasks :
        mcp.using[t] # 0 => (mcp.using[t] \notin mcp.closed /\ mcp.session = mcp.using[t])

\* C26 as claimed: once all tool calls have finished, every HTTP session
\* opened by entering the shared MCP client's async context has been closed,
\* for every interleaving of overlapping tool calls.
C26_NoSessionLeakAsClaimed ==
    (\A t \in Tasks : pc[t] = "idle") => mcp.closed = 1..mcp.opened

(***************************************************************************)
(* Properties of the key builder (SpecKeys).                               *)
(***************************************************************************)
\* C8: argument mappings that are equal as sets of name -> value items and
\* differ only in insertion order get the same cache key (same positional
\* arguments, namespace and operation kind).
C8_OrderIndependence ==
    (kb.done /\ kb.posA = kb.posB /\ SameItems(kb.kwA, kb.kwB)) => kb.keyA = kb.keyB

\* two mappings of two items each, given in opposite orders, got one key
C8_Witness ==
    /\ kb.done
    /\ kb.posA = kb.posB
    /\ Len(kb.kwA) = 2
    /\ kb.kwA # kb.kwB
    /\ SameItems(kb.kwA, kb.kwB)
    /\ kb.keyA = kb.keyB

\* Python's == on the arguments of the model: dicts are equal when they hold
\* the same items, in whatever order
ValueEq(a, b) ==
    IF a.t = "dict" /\ b.t = "dict"
    THEN {a.v[i] : i \in 1..Len(a.v)} = {b.v[i] : i \in 1..Len(b.v)}
    ELSE a.t = b.t /\ a.v = b.v

\* the two argument sets drawn are equal by value
SameArguments ==
    /\ Len(kb.posA) = Len(kb.posB)
    /\ \A i \in 1..Len(kb.posA) : ValueEq(kb.posA[i], kb.posB[i])
    /\ Len(kb.kwA) = Len(kb.kwB)
    /\ \A i \in 1..Len(kb.kwA) :
          \E j \in 1..Len(kb.kwB) :
              kb.kwA[i][1] = kb.kwB[j][1] /\ ValueEq(kb.kwA[i][2], kb.kwB[j][2])

\* C19 as claimed: two argument sets that hold non-primitive arguments
\* (mappings, sequences, None) and are equal by value get the same cache
\* key, in every process that shares the backend and whatever the insertion
\* order inside a nested mapping.
C19_SharedKeysAsClaimed == (kb.done /\ SameArguments) => kb.keyA = kb.keyB

\* C9 as claimed: two argument sets that differ (in a name, in a value, in a
\* value's type such as 30 and "30", or in how a string holding ':' splits
\* across arguments) get different cache keys.
C9_InjectivityAsClaimed ==
    (kb.done /\ (kb.posA # kb.posB \/ ~SameItems(kb.kwA, kb.kwB))) => kb.keyA # kb.keyB

====
